---- MODULE Spec2Model ----
(***************************************************************************)
(* Credit reservation and settlement in pxlsafe/autovfx.                   *)
(*                                                                         *)
(* The repository holds several implementations of the credit store:       *)
(*   - src/webhook-server.js : the in-memory server (usersByEmail,         *)
(*     processedWebhookIds) with POST /v1/webhooks/shopify, /v1/auth,      *)
(*     /v1/jobs, /v1/dev/mock-orders-paid, and the panel that calls it     *)
(*     (LicenseAPI in src/unnamed/part_004, AutoVFX in src/js/main.js);    *)
(*   - src/unnamed/part_000 : the Postgres rewrite of POST /v1/jobs;       *)
(*   - src/api/v2/index.js : POST /generate and POST /status;              *)
(*   - the ledger handlers of src/js/runway-bridge.js,                     *)
(*     src/scripts/email-auth-flow.js and                                  *)
(*     src/docs/backend-implementation-guide.md.                           *)
(* Each has its own variables and its own specification; a specification   *)
(* leaves the other implementations' variables unchanged.                  *)
(*                                                                         *)
(* Durations are counted in quarter seconds (Q units per second) so that   *)
(* Math.round and Math.ceil differ on the modelled inputs.                 *)
(***************************************************************************)
EXTENDS Integers, Sequences, FiniteSets, TLC

VARIABLES
    \* ---- src/webhook-server.js
    shopifySecret,         \* whether process.env.SHOPIFY_WEBHOOK_SECRET is set
    usersByEmail,          \* Map email -> { balance, planId } ; NoUser when absent
    processedWebhookIds,   \* Set of webhook ids
    now,                   \* Date.now()
    lastWebhook,           \* the last webhook delivery and its HTTP response
    lastJob,               \* the last POST /v1/jobs request and its HTTP response
    grantsById,            \* history: balance changes made by deliveries of each id
    deliveriesById,        \* history: deliveries handled per webhook id
    jobsDone,              \* history: number of POST /v1/jobs handled
    \* ---- the panel (src/unnamed/part_004, src/js/main.js)
    creditBalance,         \* LicenseAPI.creditBalance
    currentReservation,    \* AutoVFX.currentReservation
    panelPc,               \* "idle" | "reserving" | "responded"
    panelRequest,          \* requestedSeconds of the POST /v1/jobs in flight
    panelResponse,         \* the HTTP response on its way back to the panel
    modal,                 \* the insufficient-credits modal shown last, or NoModal
    lastReserve,           \* what reserveCreditsForGeneration returned last
    polls,                 \* the polls startExtendedPolling has running
    lastSettle,            \* the last call of settleCreditsOnCompletion
    \* --- src/api/v2/index.js: the users table and the Runway tasks ---
    envCreditsPerSecond,   \* process.env.CREDITS_PER_SECOND
    apiUsers,              \* users.balance by email
    runwayTasks,           \* status of the Runway tasks, by task id 1..Len
    apiLast,               \* the last response of /generate or /status
    apiRequests,           \* history: requests handled
    \* --- src/unnamed/part_000: POST /v1/jobs on the users table ---
    dbBalance,             \* users.balance of req.email
    dbInitialBalance,      \* history: users.balance before the requests
    dbRequests,            \* the two POST /v1/jobs requests: pc and locals
    \* --- the ledger schema of the documented handlers ---
    subscriptionDataInScope, \* whether handleOrderPaid can resolve subscriptionData
    credit_ledger,         \* rows of credit_ledger of the user, in insertion order
    credit_balance,        \* credit_balance.balance of the user
    reservations,          \* reservation row by task id, or NoRow
    processedEvents,       \* state of the processed-event record by order id
    jobInFlight,           \* the POST /v1/jobs of jobs.ts between its awaits
    ledgerLast,            \* the last call and the values it read
    ledgerOps,             \* history: calls made
    \* --- the seconds-to-credits conversions, side by side ---
    convSeconds,           \* a duration, in quarter seconds
    convResult,            \* what each conversion returned for it, or NoConversion
    \* --- RunwayAPI request throttling (src/unnamed/part_002) ---
    activeRequests,        \* this.activeRequests: Set of request ids
    requestQueue,          \* this.requestQueue: queued request ids, in order
    lastRequestTime,       \* this.lastRequestTime, in seconds
    thrNow,                \* Date.now(), in seconds
    thrPc,                 \* request id -> where its throttleRequest call stands
    thrWake,               \* request id -> when its setTimeout fires
    \* --- the rate limiting middleware of src/webhook-server.js ---
    rateMap,               \* rateMap: ip -> entry {count, reset}
    rateNow,               \* Date.now(), in clock ticks
    rateLast,              \* the answer to the last request: 429, or 200 when next() was called
    ratePassed,            \* history: ip -> time -> requests that reached a route handler
    rateRequests,          \* history: ip -> requests made
    \* --- RunwayAPI.retryWithBackoff (src/unnamed/part_002) ---
    retryPc,               \* where retryWithBackoff stands: calling fn, waiting, returned, thrown
    retryAttempt,          \* attempt
    retryCalls,            \* history: calls of fn made
    retryErrors,           \* history: messages of the errors fn threw; the last is lastError
    retryDelays,           \* history: delays waited, in seconds
    retryResult,           \* what retryWithBackoff returned or threw
    \* --- RunwayAPI.pollForCompletion (src/unnamed/part_002) ---
    pollVariant,           \* which pollForCompletion of src/unnamed/part_002 runs
    pollPc,                \* where pollForCompletion stands: polling, returned, thrown
    attempts,              \* attempts
    consecutiveErrors,     \* consecutiveErrors
    pollChecks,            \* history: calls of checkGenerationStatus
    pollLast,              \* history: what the last status check came to
    pollResult,            \* what pollForCompletion returned or threw
    \* --- onRunwayComplete, two signals of one task (src/js/runway-bridge.js) ---
    cwReservation,         \* the reservations row of the task
    cwBalance,             \* credit_balance of the task's user
    cwLedger,              \* credit_ledger rows written by the completion signals
    cwWorkers,             \* signal -> where its onRunwayComplete call stands
    \* --- router.post('/shopify'), two deliveries of one event (backend-implementation-guide.md) ---
    wdRow,                 \* status of the webhook_deliveries row of the event id, "none" without a row
    wdLedger,              \* credit_ledger rows written for the event
    wdBalance,             \* credit_balance of the order's user
    wdPlan,                \* selling plan of the delivered order
    wdHandlers,            \* delivery -> where its handler stands
    \* --- src/webhook-server.js with Postgres, one user ---
    pgStart,               \* balance of the user at start
    pgMemory,              \* usersByEmail.get(email).balance
    pgDb,                  \* users.balance of the row in Postgres
    pgWrites,              \* balances of the upserts in flight
    pgReads,               \* GET /v1/credits request -> where it stands
    pgReserved,            \* sum of reservedCredits answered by POST /v1/jobs
    pgJobsDone             \* number of POST /v1/jobs requests handled

serverVars == <<shopifySecret, usersByEmail, processedWebhookIds, now, lastWebhook, lastJob,
                grantsById, deliveriesById, jobsDone>>
\* the generation that follows a reservation in the panel
generateVars == <<polls, lastSettle>>

panelVars == <<creditBalance, currentReservation, panelPc, panelRequest,
               panelResponse, modal, lastReserve, generateVars>>

apiVars == <<envCreditsPerSecond, apiUsers, runwayTasks, apiLast, apiRequests>>

jobsDbVars == <<dbBalance, dbInitialBalance, dbRequests>>

ledgerVars == <<subscriptionDataInScope, credit_ledger, credit_balance, reservations,
                processedEvents, jobInFlight, ledgerLast, ledgerOps>>

convVars == <<convSeconds, convResult>>

throttleVars == <<activeRequests, requestQueue, lastRequestTime, thrNow, thrPc, thrWake>>

rateVars == <<rateMap, rateNow, rateLast, ratePassed, rateRequests>>

retryVars == <<retryPc, retryAttempt, retryCalls, retryErrors, retryDelays, retryResult>>

pollVars == <<pollVariant, pollPc, attempts, consecutiveErrors, pollChecks, pollLast, pollResult>>

completionVars == <<cwReservation, cwBalance, cwLedger, cwWorkers>>

deliveryVars == <<wdRow, wdLedger, wdBalance, wdPlan, wdHandlers>>

pgVars == <<pgStart, pgMemory, pgDb, pgWrites, pgReads, pgReserved, pgJobsDone>>

\* everything outside src/webhook-server.js and its panel
notServer == <<apiVars, jobsDbVars, ledgerVars, convVars, throttleVars, rateVars, retryVars, pollVars, completionVars, deliveryVars, pgVars>>

\* everything outside src/api/v2/index.js
notApi == <<serverVars, panelVars, jobsDbVars, ledgerVars, convVars, throttleVars, rateVars, retryVars, pollVars, completionVars, deliveryVars, pgVars>>

\* everything outside POST /v1/jobs of src/unnamed/part_000
notJobsDb == <<serverVars, panelVars, apiVars, ledgerVars, convVars, throttleVars, rateVars, retryVars, pollVars, completionVars, deliveryVars, pgVars>>

\* everything outside the ledger handlers
notLedger == <<serverVars, panelVars, apiVars, jobsDbVars, convVars, throttleVars, rateVars, retryVars, pollVars, completionVars, deliveryVars, pgVars>>

\* everything outside the conversions
notConv == <<serverVars, panelVars, apiVars, jobsDbVars, ledgerVars, throttleVars, rateVars, retryVars, pollVars, completionVars, deliveryVars, pgVars>>

\* everything outside the request throttling
notThrottle == <<serverVars, panelVars, apiVars, jobsDbVars, ledgerVars, convVars, rateVars, retryVars, pollVars, completionVars, deliveryVars, pgVars>>

\* everything outside the rate limiting middleware
notRate == <<serverVars, panelVars, apiVars, jobsDbVars, ledgerVars,
    convVars, throttleVars, retryVars, pollVars, completionVars, deliveryVars, pgVars>>

\* everything outside retryWithBackoff
notRetry == <<serverVars, panelVars, apiVars, jobsDbVars, ledgerVars,
    convVars, throttleVars, rateVars, pollVars, completionVars, deliveryVars, pgVars>>

\* everything outside pollForCompletion
notPoll == <<serverVars, panelVars, apiVars, jobsDbVars, ledgerVars,
    convVars, throttleVars, rateVars, retryVars, completionVars, deliveryVars, pgVars>>

\* everything outside onRunwayComplete of two signals
notCompletion == <<serverVars, panelVars, apiVars, jobsDbVars, ledgerVars,
    convVars, throttleVars, rateVars, retryVars, pollVars, deliveryVars, pgVars>>

\* everything outside router.post('/shopify') of two deliveries
notDelivery == <<serverVars, panelVars, apiVars, jobsDbVars, ledgerVars,
    convVars, throttleVars, rateVars, retryVars, pollVars, completionVars, pgVars>>

\* everything outside src/webhook-server.js with Postgres
notPg == <<serverVars, panelVars, apiVars, jobsDbVars, ledgerVars,
    convVars, throttleVars, rateVars, retryVars, pollVars, completionVars, deliveryVars>>

vars == <<serverVars, panelVars, notServer>>

----------------------------------------------------------------------------
(* Small arithmetic and strings                                             *)

Max(a, b) == IF a >= b THEN a ELSE b

\* quarter seconds per second
Q == 4

\* Math.round of q/Q seconds: floor(x + 0.5)
MathRound(q) == (2 * q + Q) \div (2 * Q)

\* Math.ceil of n/d for d > 0
CeilDiv(n, d) == -((-n) \div d)

\* String.prototype.includes on strings held as sequences of characters
Includes(s, sub) ==
    \E i \in 0..(Len(s) - Len(sub)) : SubSeq(s, i + 1, i + Len(sub)) = sub

----------------------------------------------------------------------------
(* src/webhook-server.js : data                                             *)

Emails == {"a@x.com", "b@x.com"}

NoUser == [absent |-> TRUE]

NoEmail == "(no customer email)"

NoId == "(no x-shopify-webhook-id)"

WebhookIds == {"w1", "w2"}

SELLING_PLAN_TIER1 == "690384601430"

SELLING_PLAN_TIER2 == "690385518934"

SELLING_PLAN_TIER3 == "690385551702"

UnknownPlan == "700000000000"

NoSku == <<>>

TOPUP_SKU == <<"A","U","T","O","V","F","X","-","T","O","P","U","P","-","1","0","0","0">>

ST_TOPUP == <<"T","O","P","U","P">>

ST_CREDIT == <<"C","R","E","D","I","T">>

\* a line item: selling_plan_allocation is "null", "absent" (no such key) or
\* the selling plan id; sku is a string or NoSku
Item(spa, sku) == [spa |-> spa, sku |-> sku]

Unparseable == [parse |-> FALSE]

Order(email, items) == [parse |-> TRUE, email |-> email, items |-> items]

\* the request bodies delivered to POST /v1/webhooks/shopify
Bodies ==
    { Unparseable,
      Order("a@x.com", <<Item(SELLING_PLAN_TIER1, NoSku)>>),
      Order("b@x.com", <<Item(UnknownPlan, NoSku)>>),
      Order("b@x.com", <<Item("null", TOPUP_SKU)>>),
      Order(NoEmail, <<Item(SELLING_PLAN_TIER2, NoSku)>>) }

\* what loadUsers / loadUsersFromDb find at start: nothing, or two stored users
StoredUsers ==
    { [e \in Emails |-> NoUser],
      [e \in Emails |-> [balance |-> IF e = "a@x.com" THEN 100 ELSE 0,
                         planId |-> "none"]] }

\* requestedSeconds sent to POST /v1/jobs, in quarter seconds:
\* -1 s, 3.25 s, 5 s
JobSeconds == {-4, 13, 20}

MaxDeliveries == 2

MaxJobs == 2

NoJob == [status |-> 0]

NoWebhook == [status |-> 0, id |-> NoId, result |-> "none"]

NoModal == [shown |-> FALSE]

NoReservation == [none |-> TRUE]

PanelEmail == "a@x.com"

\* res.status(402).json({ error: 'Insufficient credits', ... })
InsufficientCreditsMessage ==
    <<"I","n","s","u","f","f","i","c","i","e","n","t"," ","c","r","e","d","i","t","s">>

\* the text reserveCreditsForGeneration looks for in error.message
INSUFFICIENT_CREDITS ==
    <<"I","N","S","U","F","F","I","C","I","E","N","T","_","C","R","E","D","I","T","S">>

ST_401 == <<"4","0","1">>

ST_Unauthorized == <<"U","n","a","u","t","h","o","r","i","z","e","d">>

----------------------------------------------------------------------------
(* src/webhook-server.js : POST /v1/webhooks/shopify                        *)

\* planCredits[planId] || 1000
PlanCredits(planId) ==
    CASE planId = SELLING_PLAN_TIER1 -> 3000
      [] planId = SELLING_PLAN_TIER2 -> 7500
      [] planId = SELLING_PLAN_TIER3 -> 24000
      [] OTHER -> 1000

\* item.selling_plan_allocation !== null
IsSubscriptionItem(item) == item.spa # "null"

\* item.sku && (item.sku.includes('TOPUP') || item.sku.includes('CREDIT'))
IsTopupItem(item) ==
    item.sku # NoSku /\ (Includes(item.sku, ST_TOPUP) \/ Includes(item.sku, ST_CREDIT))

\* String(subscriptionItems[0]?.selling_plan_allocation?.selling_plan?.id || '')
PlanIdOf(item) == IF item.spa = "absent" THEN "" ELSE item.spa

\* the store after the try block of the handler ran on a parsed order
GrantSubscription(users, order) ==
    LET subscriptionItems == SelectSeq(order.items, IsSubscriptionItem)
        planId == PlanIdOf(subscriptionItems[1])
        credits == PlanCredits(planId)
        prev == IF users[order.email] = NoUser
                THEN [balance |-> 0, planId |-> planId]
                ELSE users[order.email]
    IN  IF Len(subscriptionItems) > 0 /\ order.email # NoEmail
        THEN [users EXCEPT ![order.email] =
                 [balance |-> prev.balance + credits, planId |-> planId]]
        ELSE users

\* a variant of the bookkeeping below: the handled id is never remembered
RememberNothing(processed, webhookId) == processed

\* whether the id of a handled delivery is remembered: if (webhookId) add
RememberWebhook(processed, webhookId) ==
    IF webhookId # NoId THEN processed \cup {webhookId} ELSE processed

\* the idempotency check at the start of the handler
IsDuplicate(processed, webhookId) == webhookId # NoId /\ webhookId \in processed

\* a variant of the verification below: every signature is let through
SignatureUnverified(secret, signatureOk) == FALSE

\* the HMAC verification: with SHOPIFY_WEBHOOK_SECRET set, hmac !== signature
SignatureRejected(secret, signatureOk) == secret /\ ~signatureOk

TotalDeliveries ==
    deliveriesById["w1"] + deliveriesById["w2"] + deliveriesById[NoId]

ShopifyWebhook(webhookId, signatureOk, body) ==
    /\ UNCHANGED notServer
    /\ TotalDeliveries < MaxDeliveries
    /\ deliveriesById' = [deliveriesById EXCEPT ![webhookId] = @ + 1]
    /\ IF IsDuplicate(processedWebhookIds, webhookId)
       THEN /\ lastWebhook' = [status |-> 200, id |-> webhookId, result |-> "duplicate"]
            /\ UNCHANGED <<usersByEmail, processedWebhookIds, grantsById>>
       ELSE IF SignatureRejected(shopifySecret, signatureOk)
       THEN /\ lastWebhook' = [status |-> 401, id |-> webhookId, result |-> "invalid signature"]
            /\ UNCHANGED <<usersByEmail, processedWebhookIds, grantsById>>
       ELSE LET after == IF body.parse THEN GrantSubscription(usersByEmail, body)
                         ELSE usersByEmail
            IN  /\ usersByEmail' = after
                /\ processedWebhookIds' = RememberWebhook(processedWebhookIds, webhookId)
                /\ grantsById' = [grantsById EXCEPT ![webhookId] =
                                     IF after # usersByEmail THEN @ + 1 ELSE @]
                /\ lastWebhook' = [status |-> 200, id |-> webhookId,
                                   result |-> IF body.parse THEN "received" ELSE "failed"]
    /\ UNCHANGED <<shopifySecret, now, lastJob, jobsDone, panelVars>>

----------------------------------------------------------------------------
(* src/webhook-server.js : POST /v1/auth, POST /v1/jobs, GET /v1/credits    *)

CreditsPerSecond == 15

\* POST /v1/auth: auto-create the user on first sign-in with zero credits
Auth(email) ==
    /\ UNCHANGED notServer
    /\ usersByEmail[email] = NoUser
    /\ usersByEmail' = [usersByEmail EXCEPT ![email] = [balance |-> 0, planId |-> "none"]]
    /\ UNCHANGED <<shopifySecret, processedWebhookIds, now, lastWebhook, lastJob,
                   grantsById, deliveriesById, jobsDone, panelVars>>

\* usersByEmail.get(email) || { balance: 0 }
UserOrDefault(email) ==
    IF usersByEmail[email] = NoUser THEN [balance |-> 0] ELSE usersByEmail[email]

\* billableSeconds * creditsPerSecond, requestedSeconds in quarter seconds
JobsNeeded(q) == Max(1, MathRound(Max(0, q))) * CreditsPerSecond

\* a variant of the rejection test below: lets a reservation through that is one
\* second of credits short
JobsInsufficientShort(balance, needed) == balance < needed - CreditsPerSecond

\* the test that rejects the reservation: user.balance < needed
JobsInsufficient(balance, needed) == balance < needed

\* user.balance -= needed
JobsDebit(balance, needed) == balance - needed

\* the handler of POST /v1/jobs: the store and the response it leaves
\* (lastJob keeps the request next to the response that answered it)
JobsHandler(email, q) ==
    LET needed == JobsNeeded(q)
        user == UserOrDefault(email)
    IN  /\ jobsDone < MaxJobs
        /\ jobsDone' = jobsDone + 1
        /\ IF JobsInsufficient(user.balance, needed)
           THEN /\ lastJob' = [status |-> 402, email |-> email, seconds |-> q,
                               error |-> InsufficientCreditsMessage,
                               needed |-> needed, balance |-> user.balance]
                /\ UNCHANGED usersByEmail
           ELSE /\ usersByEmail' = [usersByEmail EXCEPT ![email] =
                        [user EXCEPT !.balance = JobsDebit(user.balance, needed)]]
                /\ lastJob' = [status |-> 200, email |-> email, seconds |-> q,
                               taskId |-> now, reservedCredits |-> needed]
        /\ UNCHANGED <<shopifySecret, processedWebhookIds, now, lastWebhook,
                       grantsById, deliveriesById>>

\* POST /v1/jobs from a client other than the modelled panel
PostJobs(email, q) ==
    /\ UNCHANGED notServer
    /\ JobsHandler(email, q)
    /\ UNCHANGED panelVars

MaxNow == 2

\* Date.now() moves on by a millisecond between two requests (or does not)
Tick ==
    /\ now < MaxNow
    /\ now' = now + 1
    /\ UNCHANGED <<shopifySecret, usersByEmail, processedWebhookIds, lastWebhook,
                   lastJob, grantsById, deliveriesById, jobsDone>>
    /\ UNCHANGED <<panelVars, notServer>>

----------------------------------------------------------------------------
(* The panel: LicenseAPI (src/unnamed/part_004) and AutoVFX (src/js/main.js) *)

\* videoDuration values handleGenerate measures, in quarter seconds:
\* 1.5 s, 5 s
PanelDurations == {6, 20}

\* LicenseAPI.calculateCreditsNeeded: Math.ceil(durationSeconds * 15)
CalculateCreditsNeeded(q) == CeilDiv(q * 15, Q)

\* LicenseAPI.canGenerate(durationSeconds).canGenerate
CanGenerate(q) == creditBalance >= CalculateCreditsNeeded(q)

\* LicenseAPI.getCredits: GET /v1/credits answers the stored balance
GetCredits ==
    /\ UNCHANGED notServer
    /\ panelPc = "idle"
    /\ creditBalance' = UserOrDefault(PanelEmail).balance
    /\ creditBalance' # creditBalance
    /\ UNCHANGED <<serverVars, currentReservation, panelPc, panelRequest,
                   panelResponse, modal, lastReserve, generateVars>>

\* handleGenerate up to the request of reserveCredits:
\* checkCreditsBeforeGeneration, then POST /v1/jobs is sent
HandleGenerate(q) ==
    /\ UNCHANGED notServer
    /\ panelPc = "idle"
    /\ IF ~CanGenerate(q)
       THEN /\ modal' = [shown |-> TRUE, needed |-> CalculateCreditsNeeded(q),
                         current |-> creditBalance]
            /\ modal' # modal
            /\ UNCHANGED <<panelPc, panelRequest>>
       ELSE /\ panelPc' = "reserving"
            /\ panelRequest' = q
            /\ UNCHANGED modal
    /\ UNCHANGED <<serverVars, creditBalance, currentReservation, panelResponse,
                   lastReserve, generateVars>>

\* the server handles the panel's POST /v1/jobs
PanelJobs ==
    /\ UNCHANGED notServer
    /\ panelPc = "reserving"
    /\ JobsHandler(PanelEmail, panelRequest)
    /\ panelPc' = "responded"
    /\ panelResponse' = lastJob'
    /\ UNCHANGED <<creditBalance, currentReservation, panelRequest, modal, lastReserve,
                   generateVars>>

\* LicenseAPI.makeRequest on a response that is not ok: the message of the
\* Error it throws (errorData.message || errorData.error || ...)
MakeRequestError(response) ==
    IF Includes(response.error, ST_401) \/ Includes(response.error, ST_Unauthorized)
    THEN <<"A","u","t","h","e","n","t","i","c","a","t","i","o","n"," ",
           "r","e","q","u","i","r","e","d">>
    ELSE response.error

\* whether reserveCreditsForGeneration shows the insufficient-credits modal
ShowsInsufficientModal(message) == Includes(message, INSUFFICIENT_CREDITS)

\* LicenseAPI.reserveCredits and reserveCreditsForGeneration on the response
ReserveResponse ==
    /\ UNCHANGED notServer
    /\ panelPc = "responded"
    /\ IF panelResponse.status = 200
       THEN /\ panelPc' = "reserved"
            /\ creditBalance' = creditBalance - panelResponse.reservedCredits
            /\ currentReservation' = [taskId |-> panelResponse.taskId,
                                      reservedCredits |-> panelResponse.reservedCredits]
            /\ lastReserve' = [success |-> TRUE, seconds |-> panelRequest]
            /\ UNCHANGED modal
       ELSE LET message == MakeRequestError(panelResponse)
            IN  /\ panelPc' = "idle"
                /\ lastReserve' = [success |-> FALSE, seconds |-> panelRequest,
                                   error |-> message]
                /\ modal' = IF ShowsInsufficientModal(message)
                            THEN [shown |-> TRUE,
                                  needed |-> CalculateCreditsNeeded(panelRequest),
                                  current |-> creditBalance]
                            ELSE modal
                /\ UNCHANGED <<creditBalance, currentReservation>>
    /\ UNCHANGED <<serverVars, panelRequest, panelResponse, generateVars>>

\* let videoDuration = 10: the duration handleGenerate assumes when no video
\* has been exported, in quarter seconds
DefaultDuration == 10 * Q

\* the duration startExtendedPolling passes to settleCreditsOnCompletion
AssumedActualDuration == 10 * Q

\* task ids Runway answers; the server's ids are task_<Date.now()>
RunwayTaskIds == {101, 102}

NoSettle == [called |-> FALSE]

\* the taskId of this.currentReservation, NoTaskId when it is null
NoTaskId == -1
CurrentTaskId ==
    IF currentReservation = NoReservation THEN NoTaskId ELSE currentReservation.taskId

\* a running startExtendedPolling(taskId); the code keeps its taskId only,
\* reservation tells which reservation was current when it was started
Poll(runwayTaskId, reservation) == [taskId |-> runwayTaskId, reservation |-> reservation]

\* this.currentReservation?.reservedCredits
ReservedCreditsOrZero ==
    IF currentReservation = NoReservation THEN 0 ELSE currentReservation.reservedCredits

\* refundCredits of settleCreditsOnCompletion(taskId, success, actualSeconds)
RefundCredits(success, q) ==
    LET actualCreditsUsed == CalculateCreditsNeeded(q)
        reservedCredits == IF ReservedCreditsOrZero # 0 THEN ReservedCreditsOrZero
                           ELSE actualCreditsUsed
    IN  IF success THEN Max(0, reservedCredits - actualCreditsUsed)
        ELSE ReservedCreditsOrZero

\* settleCreditsOnCompletion(taskId, success, actualSeconds): the refund is
\* added to the local balance and the current reservation is cleared
SettleCreditsOnCompletion(taskId, success, q) ==
    /\ creditBalance' = creditBalance + RefundCredits(success, q)
    /\ currentReservation' = NoReservation
    /\ lastSettle' = [called |-> TRUE, taskId |-> taskId, success |-> success,
                      refund |-> RefundCredits(success, q)]

\* handleGenerate after the reservation, without an exported video and
\* without a selected version: "No video source available", return
NoSourceVideo ==
    /\ UNCHANGED notServer
    /\ panelPc = "reserved"
    /\ panelRequest = DefaultDuration
    /\ panelPc' = "idle"
    /\ UNCHANGED <<serverVars, creditBalance, currentReservation, panelRequest,
                   panelResponse, modal, lastReserve, generateVars>>

\* what generateWithRunway comes to: a video url, a completed task without
\* url, an initiated task that is polled in the background, or an error
GenerateOutcomes == {"url", "no-url", "initiated", "error"}

\* handleGenerate after the reservation: generateWithRunway and its catch
GenerateWithRunway(outcome, runwayTaskId) ==
    /\ UNCHANGED notServer
    /\ panelPc = "reserved"
    /\ panelPc' = "idle"
    /\ IF outcome = "error"
       THEN /\ IF currentReservation # NoReservation
               THEN SettleCreditsOnCompletion(currentReservation.taskId, FALSE, 0)
               ELSE UNCHANGED <<creditBalance, currentReservation, lastSettle>>
            /\ UNCHANGED polls
       ELSE IF outcome = "initiated"
       THEN /\ polls' = polls \cup {Poll(runwayTaskId, CurrentTaskId)}
            /\ UNCHANGED <<creditBalance, currentReservation, lastSettle>>
       ELSE UNCHANGED <<creditBalance, currentReservation, lastSettle, polls>>
    /\ UNCHANGED <<serverVars, panelRequest, panelResponse, modal, lastReserve>>

\* what a poll of startExtendedPolling ends with; a task still in progress
\* changes nothing and is polled again
PollOutcomes == {"SUCCEEDED", "FAILED", "timeout"}

\* pollForVideo of startExtendedPolling(taskId) on its last attempt
PollForVideo(poll, outcome) ==
    /\ UNCHANGED notServer
    /\ poll \in polls
    /\ polls' = polls \ {poll}
    /\ IF outcome = "SUCCEEDED"
       THEN SettleCreditsOnCompletion(poll.taskId, TRUE, AssumedActualDuration)
       ELSE IF outcome = "FAILED"
       THEN SettleCreditsOnCompletion(poll.taskId, FALSE, 0)
       ELSE UNCHANGED <<creditBalance, currentReservation, lastSettle>>
    /\ UNCHANGED <<serverVars, panelPc, panelRequest, panelResponse, modal, lastReserve>>

----------------------------------------------------------------------------
(* src/api/v2/index.js: POST /generate and POST /status on the users table  *)

\* values of CREDITS_PER_SECOND the deployment may set
EnvCreditsPerSecond == {1, 15}

\* balances of the users table at start
ApiBalances == {0, 100}

\* seconds sent by the extension, in quarter seconds: 0 s, -1 s, 1.5 s, 5 s
ApiSeconds == {0, -4, 6, 20}

MaxRunwayTasks == 2

MaxApiRequests == 3

NoResponse == [status |-> 0]

\* utils.calculateCredits: Math.ceil(seconds) * creditsPerSecond
CalculateCredits(q) == CeilDiv(q, Q) * envCreditsPerSecond

\* the balance test of /generate: balance - credits < 0
NotEnoughCredits(balance, credits) == balance - credits < 0

\* subtractCredits: UPDATE users SET balance = balance - $1
SubtractCredits(balance, credits) == balance - credits

\* POST /generate: 400 on a missing field, 402 when the balance does not
\* cover the credits, otherwise the Runway task is created (or Runway fails)
ApiGenerate(email, q, runwayOk) ==
    /\ apiRequests < MaxApiRequests
    /\ apiRequests' = apiRequests + 1
    /\ IF q = 0
       THEN /\ apiLast' = [status |-> 400, route |-> "generate"]
            /\ UNCHANGED runwayTasks
       ELSE IF NotEnoughCredits(apiUsers[email], CalculateCredits(q))
       THEN /\ apiLast' = [status |-> 402, route |-> "generate"]
            /\ UNCHANGED runwayTasks
       ELSE IF runwayOk /\ Len(runwayTasks) < MaxRunwayTasks
       THEN /\ runwayTasks' = Append(runwayTasks, "PENDING")
            /\ apiLast' = [status |-> 200, route |-> "generate",
                           id |-> Len(runwayTasks) + 1]
       ELSE /\ apiLast' = [status |-> 500, route |-> "generate"]
            /\ UNCHANGED runwayTasks
    /\ UNCHANGED <<envCreditsPerSecond, apiUsers>>
    /\ UNCHANGED notApi

\* Runway finishes a task
RunwayFinish(id, outcome) ==
    /\ id \in 1..Len(runwayTasks)
    /\ runwayTasks[id] = "PENDING"
    /\ runwayTasks' = [runwayTasks EXCEPT ![id] = outcome]
    /\ UNCHANGED <<envCreditsPerSecond, apiUsers, apiLast, apiRequests>>
    /\ UNCHANGED notApi

\* POST /status: 400 on a missing field, 500 when Runway does not know the
\* id, and on a SUCCEEDED task the credits of `seconds` are subtracted
ApiStatus(email, id, q) ==
    /\ apiRequests < MaxApiRequests
    /\ apiRequests' = apiRequests + 1
    /\ IF id = 0 \/ q = 0
       THEN /\ apiLast' = [status |-> 400, route |-> "status"]
            /\ UNCHANGED apiUsers
       ELSE IF id \notin 1..Len(runwayTasks)
       THEN /\ apiLast' = [status |-> 500, route |-> "status"]
            /\ UNCHANGED apiUsers
       ELSE IF runwayTasks[id] = "SUCCEEDED"
       THEN /\ apiUsers' = [apiUsers EXCEPT ![email] =
                               SubtractCredits(@, CalculateCredits(q))]
            /\ apiLast' = [status |-> 200, route |-> "status", id |-> id,
                           task |-> runwayTasks[id], credits |-> apiUsers'[email]]
       ELSE /\ apiLast' = [status |-> 200, route |-> "status", id |-> id,
                           task |-> runwayTasks[id]]
            /\ UNCHANGED apiUsers
    /\ UNCHANGED <<envCreditsPerSecond, runwayTasks>>
    /\ UNCHANGED notApi

InitApi ==
    /\ envCreditsPerSecond \in EnvCreditsPerSecond
    /\ apiUsers \in [Emails -> ApiBalances]
    /\ runwayTasks = <<>>
    /\ apiLast = NoResponse
    /\ apiRequests = 0

\* the users table when no request of this API is modelled
IdleApi ==
    /\ envCreditsPerSecond = 15
    /\ apiUsers = [e \in Emails |-> 0]
    /\ runwayTasks = <<>>
    /\ apiLast = NoResponse
    /\ apiRequests = 0

----------------------------------------------------------------------------
(* src/unnamed/part_000: POST /v1/jobs on the users table                   *)

\* JavaScript values of the locals user.balance and balance - needed
JsNumber(n) == [type |-> "number", value |-> n]

JsUndefined == [type |-> "undefined"]

JsNaN == [type |-> "NaN"]

\* a < b on numbers; false when a side is undefined or NaN
JsLess(a, b) ==
    IF a.type = "number" /\ b.type = "number" THEN a.value < b.value ELSE FALSE

\* a - b on numbers; NaN when a side is undefined or NaN
JsMinus(a, b) ==
    IF a.type = "number" /\ b.type = "number" THEN JsNumber(a.value - b.value)
    ELSE JsNaN

\* user.balance where user = getUser(req.email) is the pending Promise
\* (getUser is async and the call is not awaited)
BalanceOfUnawaitedUser(stored) == JsUndefined

\* users.balance before the two requests
DbBalances == {0, 30, 100}

Requests == {1, 2}

NoRequest == [pc |-> "idle"]

\* the handler up to `await updateBalance(...)`: either the 402 response or
\* the UPDATE on its way to the database
DbJobsStart(i, q) ==
    LET needed == Max(1, MathRound(Max(0, q))) * CreditsPerSecond
        balance == BalanceOfUnawaitedUser(dbBalance)
    IN  /\ dbRequests[i].pc = "idle"
        /\ dbRequests' = [dbRequests EXCEPT ![i] =
              IF JsLess(balance, JsNumber(needed))
              THEN [pc |-> "responded", status |-> 402, needed |-> needed,
                    balance |-> balance]
              ELSE [pc |-> "updating", needed |-> needed,
                    write |-> JsMinus(balance, JsNumber(needed))]]
        /\ UNCHANGED <<dbBalance, dbInitialBalance>>
        /\ UNCHANGED notJobsDb

\* updateBalance runs UPDATE users SET balance = $1 on the INTEGER column
\* (src/setup_db.js); a value that is no integer makes the query reject and
\* the handler ends without a response; otherwise res.json follows
DbJobsUpdate(i) ==
    /\ dbRequests[i].pc = "updating"
    /\ IF dbRequests[i].write.type = "number"
       THEN /\ dbBalance' = dbRequests[i].write.value
            /\ dbRequests' = [dbRequests EXCEPT ![i] =
                  [pc |-> "responded", status |-> 200,
                   needed |-> dbRequests[i].needed,
                   reservedCredits |-> dbRequests[i].needed]]
       ELSE /\ dbRequests' = [dbRequests EXCEPT ![i] =
                  [pc |-> "rejected", status |-> 0, needed |-> dbRequests[i].needed]]
            /\ UNCHANGED dbBalance
    /\ UNCHANGED dbInitialBalance
    /\ UNCHANGED notJobsDb

InitJobsDb ==
    /\ dbBalance \in DbBalances
    /\ dbInitialBalance = dbBalance
    /\ dbRequests = [i \in Requests |-> NoRequest]

IdleJobsDb ==
    /\ dbBalance = 0
    /\ dbInitialBalance = 0
    /\ dbRequests = [i \in Requests |-> NoRequest]

----------------------------------------------------------------------------
(* The ledger handlers: webhooks.ts, jobs.ts and runCompletionWorker.ts of  *)
(* src/js/runway-bridge.js, grantCredits of src/scripts/email-auth-flow.js   *)
(* and handleOrderPaid of src/docs/backend-implementation-guide.md, on the   *)
(* tables credit_ledger, credit_balance and reservations of one user        *)

SecsPerCredit == 5

\* creditMath.toCredits: Math.ceil(s / secsPerCredit), s in quarter seconds
ToCredits(q) == CeilDiv(q, SecsPerCredit * Q)

OrderIds == {"o1"}

NoRow == [absent |-> TRUE]

NoCall == [op |-> "none"]

\* orders/paid bodies: the selling plan of the subscription item ("null"
\* when the order has none) and whether a top-up item is present
LedgerOrders ==
    { [plan |-> SELLING_PLAN_TIER2, topup |-> FALSE],
      [plan |-> "null", topup |-> TRUE],
      [plan |-> SELLING_PLAN_TIER1, topup |-> TRUE] }

\* requestedSeconds of jobs.ts in quarter seconds: 2 s, 10 s, 25 s
ReserveSeconds == {8, 40, 100}

\* actualSeconds reported on completion: -10 s, 0 s, 3 s, 10 s, 25 s
ActualSeconds == {-40, 0, 12, 40, 100}

\* the balance (and its ledger) found at start
LedgerStart == {0, 10}

MaxLedgerOps == 3

\* sum of the deltas of the ledger rows
RECURSIVE SumDeltas(_)
SumDeltas(rows) ==
    IF rows = <<>> THEN 0 ELSE rows[1].delta + SumDeltas(Tail(rows))

\* sellingPlanBaseCredits / sellingPlanCredits: 1000 | 2500 | 8000
BaseCredits(planId) ==
    CASE planId = SELLING_PLAN_TIER1 -> 1000
      [] planId = SELLING_PLAN_TIER2 -> 2500
      [] planId = SELLING_PLAN_TIER3 -> 8000
      [] OTHER -> 1000

\* topupCredits(sku) for the 1000-credit pack
TopupCredits == 1000

\* t.addLedger(user, delta, type)
AddLedger(rows, delta, type) == Append(rows, [delta |-> delta, event_type |-> type])

\* t.bumpBalance(user, delta) and the upsert balance = balance + $2
BumpBalance(balance, delta) == balance + delta

\* the tables as a pair, so that a transaction commits both or neither
Tables(rows, balance) == [ledger |-> rows, balance |-> balance]

\* db.tx / BEGIN .. COMMIT: the writes of the body, or nothing when a
\* statement throws and the transaction is rolled back
Tx(before, after, throws) == IF throws THEN before ELSE after

\* webhooks.ts, orders/paid: the subscription transaction, then the top-up
\* transaction; a throw skips what follows and marks the event failed
LedgerWebhook(id, order, fault) ==
    LET t0 == Tables(credit_ledger, credit_balance)
        base == BaseCredits(order.plan)
        renew == order.plan # "null"
        t1 == IF renew
              THEN Tx(t0, Tables(AddLedger(t0.ledger, base, "CREDIT_BASE_RESET"),
                                 BumpBalance(t0.balance, base)),
                      fault = "renewal")
              ELSE t0
        threw1 == renew /\ fault = "renewal"
        t2 == IF order.topup /\ ~threw1
              THEN Tx(t1, Tables(AddLedger(t1.ledger, TopupCredits, "CREDIT_TOPUP"),
                                 BumpBalance(t1.balance, TopupCredits)),
                      fault = "topup")
              ELSE t1
        threw == threw1 \/ (order.topup /\ fault = "topup")
    IN  /\ ledgerOps < MaxLedgerOps
        /\ ledgerOps' = ledgerOps + 1
        /\ IF processedEvents[id] = "processed"
           THEN /\ ledgerLast' = [op |-> "webhook", id |-> id, status |-> 200,
                                  skipped |-> TRUE]
                /\ UNCHANGED <<credit_ledger, credit_balance, processedEvents>>
           ELSE /\ credit_ledger' = t2.ledger
                /\ credit_balance' = t2.balance
                /\ processedEvents' = [processedEvents EXCEPT ![id] =
                                          IF threw THEN "failed" ELSE "processed"]
                /\ ledgerLast' = [op |-> "webhook", id |-> id,
                                  status |-> IF threw THEN 500 ELSE 200,
                                  skipped |-> FALSE]
        /\ UNCHANGED <<subscriptionDataInScope, reservations, jobInFlight>>
        /\ UNCHANGED notLedger

\* email-auth-flow.js grantCredits: BEGIN, INSERT credit_ledger, upsert
\* credit_balance = balance + credits, COMMIT; ROLLBACK on a throw
GrantCredits(credits, throws) ==
    LET t0 == Tables(credit_ledger, credit_balance)
        t1 == Tx(t0, Tables(AddLedger(t0.ledger, credits, "SUBSCRIPTION_START"),
                            BumpBalance(t0.balance, credits)), throws)
    IN  /\ ledgerOps < MaxLedgerOps
        /\ ledgerOps' = ledgerOps + 1
        /\ credit_ledger' = t1.ledger
        /\ credit_balance' = t1.balance
        /\ ledgerLast' = [op |-> "grantCredits", threw |-> throws]
        /\ UNCHANGED <<subscriptionDataInScope, reservations, processedEvents,
                       jobInFlight>>
        /\ UNCHANGED notLedger

\* the upsert of handleOrderPaid: ON CONFLICT DO UPDATE SET balance = $2
SetBalance(balance, credits) == credits

\* backend-implementation-guide.md handleOrderPaid on a subscription order:
\* BEGIN, upsert subscription, INSERT credit_ledger (+credits), upsert
\* credit_balance with balance = credits, COMMIT; ROLLBACK on a throw.
\* The arguments of the first statement read subscriptionData, which throws
\* when the name is not in scope.
HandleOrderPaid(order, throws) ==
    LET credits == BaseCredits(order.plan)
        t0 == Tables(credit_ledger, credit_balance)
        threw == throws \/ ~subscriptionDataInScope
        t1 == Tx(t0, Tables(AddLedger(t0.ledger, credits, "CREDIT_BASE_RESET"),
                            SetBalance(t0.balance, credits)), threw)
    IN  /\ ledgerOps < MaxLedgerOps
        /\ ledgerOps' = ledgerOps + 1
        /\ order.plan # "null"
        /\ credit_ledger' = t1.ledger
        /\ credit_balance' = t1.balance
        /\ ledgerLast' = [op |-> "handleOrderPaid", threw |-> threw,
                          plan |-> order.plan]
        /\ UNCHANGED <<subscriptionDataInScope, reservations, processedEvents,
                       jobInFlight>>
        /\ UNCHANGED notLedger

\* credits getCreditsForSku hands to grantCredits
GrantAmounts == {1000, 2500}

MaxTasks == 2

NoJobInFlight == [pc |-> "idle"]

\* the task ids Runway has handed out so far are 1..TasksCreated
TasksCreated == Cardinality({t \in 1..MaxTasks : reservations[t] # NoRow})

\* jobs.ts, the transaction: getBalanceForUpdate, the 402 throw when
\* bal < needed, otherwise the DEBIT_JOB_RESERVE row and the balance bump
JobsReserve(q) ==
    LET needed == ToCredits(q)
        bal == credit_balance
    IN  /\ ledgerOps < MaxLedgerOps
        /\ jobInFlight = NoJobInFlight
        /\ TasksCreated < MaxTasks
        /\ ledgerOps' = ledgerOps + 1
        /\ IF bal < needed
           THEN /\ ledgerLast' = [op |-> "jobs", status |-> 402,
                                  error |-> INSUFFICIENT_CREDITS,
                                  bal |-> bal, needed |-> needed]
                /\ UNCHANGED <<credit_ledger, credit_balance, jobInFlight>>
           ELSE /\ credit_ledger' = AddLedger(credit_ledger, -needed, "DEBIT_JOB_RESERVE")
                /\ credit_balance' = BumpBalance(credit_balance, -needed)
                /\ jobInFlight' = [pc |-> "createTask", needed |-> needed]
                /\ ledgerLast' = [op |-> "jobs", status |-> 0, needed |-> needed]
        /\ UNCHANGED <<subscriptionDataInScope, reservations, processedEvents>>
        /\ UNCHANGED notLedger

\* jobs.ts, await runway.createTask: a task, or a throw that ends the handler
JobsCreateTask(ok) ==
    /\ jobInFlight.pc = "createTask"
    /\ IF ok
       THEN /\ jobInFlight' = [pc |-> "createReservation",
                               needed |-> jobInFlight.needed,
                               taskId |-> TasksCreated + 1]
            /\ UNCHANGED ledgerLast
       ELSE /\ jobInFlight' = NoJobInFlight
            /\ ledgerLast' = [op |-> "jobs", status |-> 500,
                              needed |-> jobInFlight.needed]
    /\ UNCHANGED <<subscriptionDataInScope, credit_ledger, credit_balance,
                   reservations, processedEvents, ledgerOps>>
    /\ UNCHANGED notLedger

\* jobs.ts, db.createReservation(user.id, task.id, needed) and the response
JobsCreateReservation ==
    /\ jobInFlight.pc = "createReservation"
    /\ reservations' = [reservations EXCEPT ![jobInFlight.taskId] =
                           [reserved_credits |-> jobInFlight.needed,
                            status |-> "open"]]
    /\ jobInFlight' = NoJobInFlight
    /\ ledgerLast' = [op |-> "jobs", status |-> 200, taskId |-> jobInFlight.taskId,
                      reservedCredits |-> jobInFlight.needed]
    /\ UNCHANGED <<subscriptionDataInScope, credit_ledger, credit_balance,
                   processedEvents, ledgerOps>>
    /\ UNCHANGED notLedger

\* a variant of the guard below: the early return only for a missing reservation
ReservationFound(r) == r # NoRow

\* onRunwayComplete: the early return is skipped only for r && r.status === 'open'
ReservationOpen(r) == r # NoRow /\ r.status = "open"

\* a variant of the refund below: one credit short
FailRefundShort(r) == r.reserved_credits - 1

\* what the failed branch credits back
FailRefund(r) == r.reserved_credits

\* what the succeeded branch credits back: Math.max(0, reserved - used)
SettleRefund(r, q) == Max(0, r.reserved_credits - ToCredits(q))

\* runCompletionWorker.ts onRunwayComplete(taskId, status, actualSeconds):
\* one transaction that credits the refund and closes the reservation
OnRunwayComplete(taskId, status, q, throws) ==
    LET r == reservations[taskId]
        refund == IF status # "SUCCEEDED" THEN FailRefund(r) ELSE SettleRefund(r, q)
        kind == IF status # "SUCCEEDED" THEN "CREDIT_JOB_FAIL" ELSE "CREDIT_JOB_REFUND"
        writes == status # "SUCCEEDED" \/ refund # 0
        call == [op |-> "complete", taskId |-> taskId, status |-> status,
                 actualSeconds |-> q]
    IN  /\ ledgerOps < MaxLedgerOps
        /\ ledgerOps' = ledgerOps + 1
        /\ IF ~ReservationOpen(r)
           THEN /\ ledgerLast' = [call EXCEPT !.op = "complete-return"]
                /\ UNCHANGED <<credit_ledger, credit_balance, reservations>>
           ELSE IF throws
           THEN /\ ledgerLast' = [call EXCEPT !.op = "complete-throw"]
                /\ UNCHANGED <<credit_ledger, credit_balance, reservations>>
           ELSE /\ credit_ledger' = IF writes
                                    THEN AddLedger(credit_ledger, refund, kind)
                                    ELSE credit_ledger
                /\ credit_balance' = IF writes
                                     THEN BumpBalance(credit_balance, refund)
                                     ELSE credit_balance
                /\ reservations' = [reservations EXCEPT ![taskId].status = "closed"]
                /\ ledgerLast' = call
        /\ UNCHANGED <<subscriptionDataInScope, processedEvents, jobInFlight>>
        /\ UNCHANGED notLedger

InitLedger ==
    /\ subscriptionDataInScope \in BOOLEAN
    /\ credit_balance \in LedgerStart
    /\ credit_ledger = IF credit_balance = 0 THEN <<>>
                       ELSE <<[delta |-> credit_balance, event_type |-> "CREDIT_TOPUP"]>>
    /\ reservations = [t \in 1..MaxTasks |-> NoRow]
    /\ processedEvents = [id \in OrderIds |-> "none"]
    /\ jobInFlight = NoJobInFlight
    /\ ledgerLast = NoCall
    /\ ledgerOps = 0

IdleLedger ==
    /\ subscriptionDataInScope = FALSE
    /\ credit_balance = 0
    /\ credit_ledger = <<>>
    /\ reservations = [t \in 1..MaxTasks |-> NoRow]
    /\ processedEvents = [id \in OrderIds |-> "none"]
    /\ jobInFlight = NoJobInFlight
    /\ ledgerLast = NoCall
    /\ ledgerOps = 0

IdleServer ==
    /\ shopifySecret = FALSE
    /\ usersByEmail = [e \in Emails |-> NoUser]
    /\ processedWebhookIds = {}
    /\ now = 0
    /\ lastWebhook = NoWebhook
    /\ lastJob = NoJob
    /\ grantsById = [i \in WebhookIds \cup {NoId} |-> 0]
    /\ deliveriesById = [i \in WebhookIds \cup {NoId} |-> 0]
    /\ jobsDone = 0
    /\ creditBalance = 0
    /\ currentReservation = NoReservation
    /\ panelPc = "idle"
    /\ panelRequest = 0
    /\ panelResponse = NoJob
    /\ modal = NoModal
    /\ lastReserve = [success |-> TRUE, seconds |-> 0]
    /\ polls = {}
    /\ lastSettle = NoSettle

----------------------------------------------------------------------------
(* The seconds-to-credits conversions of the code, applied to one duration  *)

\* durations from -3 s to 12 s, in quarter seconds
ConvSeconds == (-3 * Q)..(12 * Q)

NoConversion == [done |-> FALSE]

\* the conversions of POST /v1/jobs (src/webhook-server.js), of
\* calculateCredits (src/api/v2/utils.js) and of the panel's
\* LicenseAPI.calculateCreditsNeeded, each applied to q
Convert(q) ==
    /\ convSeconds' = q
    /\ convResult' = [done |-> TRUE,
                      jobs |-> JobsNeeded(q),
                      api |-> CalculateCredits(q),
                      panel |-> CalculateCreditsNeeded(q)]
    /\ <<convSeconds, convResult>> # <<convSeconds', convResult'>>
    /\ UNCHANGED notConv

InitConv ==
    /\ convSeconds \in ConvSeconds
    /\ convResult = NoConversion

IdleConv ==
    /\ convSeconds = 0
    /\ convResult = NoConversion

----------------------------------------------------------------------------
(* src/unnamed/part_002: RunwayAPI.throttleRequest and processQueue         *)

\* this.maxConcurrentRequests
maxConcurrentRequests == 3

\* this.minRequestInterval, in seconds
minRequestInterval == 1

MaxRequests == 5
MaxThrNow == 2

RequestIds == 1..MaxRequests

\* throttleRequest(requestId, requestFn), up to its first await
ThrottleRequest(id) ==
    /\ thrPc[id] = "idle"
    \* the calls are numbered in the order they are made
    /\ \A earlier \in RequestIds : earlier < id => thrPc[earlier] # "idle"
    /\ IF Cardinality(activeRequests) >= maxConcurrentRequests
       THEN /\ requestQueue' = Append(requestQueue, id)
            /\ thrPc' = [thrPc EXCEPT ![id] = "queued"]
            /\ UNCHANGED <<activeRequests, lastRequestTime, thrWake>>
       ELSE IF thrNow - lastRequestTime < minRequestInterval
       THEN \* await new Promise((res) => setTimeout(res, waitTime)); the timer
            \* is due within the times the clock reaches
            /\ lastRequestTime + minRequestInterval <= MaxThrNow
            /\ thrPc' = [thrPc EXCEPT ![id] = "waiting"]
            /\ thrWake' = [thrWake EXCEPT
                             ![id] = thrNow + (minRequestInterval - (thrNow - lastRequestTime))]
            /\ UNCHANGED <<activeRequests, requestQueue, lastRequestTime>>
       ELSE /\ activeRequests' = activeRequests \cup {id}
            /\ lastRequestTime' = thrNow
            /\ thrPc' = [thrPc EXCEPT ![id] = "running"]
            /\ UNCHANGED <<requestQueue, thrWake>>
    /\ UNCHANGED thrNow
    /\ UNCHANGED notThrottle

\* the continuation of throttleRequest after its setTimeout has fired
ThrottleResume(id) ==
    /\ thrPc[id] = "waiting"
    /\ thrNow >= thrWake[id]
    /\ activeRequests' = activeRequests \cup {id}
    /\ lastRequestTime' = thrNow
    /\ thrPc' = [thrPc EXCEPT ![id] = "running"]
    /\ UNCHANGED <<requestQueue, thrNow, thrWake>>
    /\ UNCHANGED notThrottle

\* a variant of the choice below: the request queued last is taken
QueueLast(queue) == queue[Len(queue)]

\* the request this.requestQueue.shift() takes
QueueShift(queue) == Head(queue)

\* the queue without the request taken
QueueRest(queue, taken) ==
    LET i == CHOOSE k \in 1..Len(queue) : queue[k] = taken
    IN  SubSeq(queue, 1, i - 1) \o SubSeq(queue, i + 1, Len(queue))

\* requestFn() settles: the finally block deletes the id and calls
\* processQueue(), which starts the head of the queue when there is room
ThrottleFinally(id) ==
    /\ thrPc[id] \in {"running", "dequeued"}
    /\ LET remaining == activeRequests \ {id}
       IN  IF Len(requestQueue) > 0 /\ Cardinality(remaining) < maxConcurrentRequests
           THEN /\ activeRequests' = remaining \cup {QueueShift(requestQueue)}
                /\ requestQueue' = QueueRest(requestQueue, QueueShift(requestQueue))
                /\ lastRequestTime' = thrNow
                /\ thrPc' = [thrPc EXCEPT ![id] = "settled",
                                          ![QueueShift(requestQueue)] = "dequeued"]
           ELSE /\ activeRequests' = remaining
                /\ thrPc' = [thrPc EXCEPT ![id] = "settled"]
                /\ UNCHANGED <<requestQueue, lastRequestTime>>
    /\ UNCHANGED <<thrNow, thrWake>>
    /\ UNCHANGED notThrottle

\* time passes
ThrottleTick ==
    /\ thrNow < MaxThrNow
    /\ thrNow' = thrNow + 1
    /\ UNCHANGED <<activeRequests, requestQueue, lastRequestTime, thrPc, thrWake>>
    /\ UNCHANGED notThrottle

\* the constructor; Date.now() is far beyond lastRequestTime = 0
InitThrottle ==
    /\ activeRequests = {}
    /\ requestQueue = <<>>
    /\ lastRequestTime = 0
    /\ thrNow = minRequestInterval
    /\ thrPc = [id \in RequestIds |-> "idle"]
    /\ thrWake = [id \in RequestIds |-> 0]

IdleThrottle == InitThrottle


----------------------------------------------------------------------------
(* src/webhook-server.js: the per-IP rate limiting middleware               *)

\* RATE_LIMIT_WINDOW_MS and RATE_LIMIT_MAX_REQUESTS as the deployment sets
\* them, the window in clock ticks
WINDOW_MS == 2
MAX_REQ == 2

MaxRateNow == 4
MaxRateRequests == 5

RateIps == {"ip1", "ip2"}
RateTimes == 0..MaxRateNow

\* rateMap.get(ip) of an ip not seen yet
NoEntry == [count |-> -1, reset |-> -1]

NoRateAnswer == [ip |-> "none", status |-> 0]

\* a variant of the test below: one more request is let through
RateExceededLate(count) == count > MAX_REQ + 1

\* entry.count > MAX_REQ
RateExceeded(count) == count > MAX_REQ

\* of the requests counted in passed (time -> requests that reached a route
\* handler), those at the times ts
RECURSIVE PassedIn(_, _)
PassedIn(passed, ts) ==
    IF ts = {} THEN 0
    ELSE LET t == CHOOSE x \in ts : TRUE
         IN  passed[t] + PassedIn(passed, ts \ {t})

\* app.use((req, res, next) => ...) for a request of ip
RateLimit(ip) ==
    /\ rateRequests["ip1"] + rateRequests["ip2"] < MaxRateRequests
    /\ LET fresh == [count |-> 0, reset |-> rateNow + WINDOW_MS]
           stored == IF rateMap[ip] = NoEntry THEN fresh ELSE rateMap[ip]
           entry == IF rateNow > stored.reset THEN fresh ELSE stored
           counted == [entry EXCEPT !.count = @ + 1]
       IN  /\ rateMap' = [rateMap EXCEPT ![ip] = counted]
           /\ IF RateExceeded(counted.count)
              THEN /\ rateLast' = [ip |-> ip, status |-> 429]
                   /\ UNCHANGED ratePassed
              ELSE /\ rateLast' = [ip |-> ip, status |-> 200]
                   /\ ratePassed' = [ratePassed EXCEPT ![ip][rateNow] = @ + 1]
    /\ rateRequests' = [rateRequests EXCEPT ![ip] = @ + 1]
    /\ UNCHANGED rateNow
    /\ UNCHANGED notRate

\* time passes
RateTick ==
    /\ rateNow < MaxRateNow
    /\ rateNow' = rateNow + 1
    /\ UNCHANGED <<rateMap, rateLast, ratePassed, rateRequests>>
    /\ UNCHANGED notRate

InitRate ==
    /\ rateMap = [ip \in RateIps |-> NoEntry]
    /\ rateNow = 0
    /\ rateLast = NoRateAnswer
    /\ ratePassed = [ip \in RateIps |-> [t \in RateTimes |-> 0]]
    /\ rateRequests = [ip \in RateIps |-> 0]

IdleRate == InitRate


----------------------------------------------------------------------------
(* src/unnamed/part_002: RunwayAPI.retryWithBackoff                         *)

\* the defaults of retryWithBackoff(fn, maxRetries = 3, baseDelay = 2000),
\* the delay in seconds
maxRetries == 3
baseDelay == 2

\* the texts retryWithBackoff looks for in error.message
ST_ContentModeration ==
    <<"c","o","n","t","e","n","t"," ","m","o","d","e","r","a","t","i","o",
      "n">>

ST_AssetValidation ==
    <<"A","s","s","e","t"," ","v","a","l","i","d","a","t","i","o","n"," ","f",
      "a","i","l","e","d">>

ST_ApiKeyNotSet ==
    <<"A","P","I"," ","k","e","y"," ","n","o","t"," ","s","e","t">>

ST_InvalidDataUri ==
    <<"I","n","v","a","l","i","d"," ","d","a","t","a"," ","U","R","I">>

ST_UnsupportedAsset ==
    <<"U","n","s","u","p","p","o","r","t","e","d"," ","a","s","s","e","t"," ",
      "t","y","p","e">>

ST_400 ==
    <<"4","0","0">>

ST_FailedToFetch ==
    <<"F","a","i","l","e","d"," ","t","o"," ","f","e","t","c","h"," ","a","s",
      "s","e","t">>

ST_TimeoutFetching ==
    <<"T","i","m","e","o","u","t"," ","w","h","i","l","e"," ","f","e","t","c",
      "h","i","n","g">>

ST_ServerDown ==
    <<"s","e","r","v","e","r"," ","h","o","s","t","i","n","g"," ","t","h","e",
      " ","a","s","s","e","t"," ","m","a","y"," ","b","e"," ","d","o","w",
      "n">>

ST_ApiError ==
    <<"A","P","I"," ","E","r","r","o","r",":"," ">>

ST_500 ==
    <<"5","0","0"," ","I","n","t","e","r","n","a","l"," ","S","e","r","v","e",
      "r"," ","E","r","r","o","r">>

\* error messages fn may throw
MsgModerated400 == ST_ApiError \o ST_400 \o <<" ">> \o ST_ContentModeration
MsgBadRequest400 == ST_ApiError \o ST_400
MsgFetchFailed == ST_FailedToFetch
MsgFetchTimeout == ST_TimeoutFetching
MsgInvalidDataUri == ST_ApiError \o ST_400 \o <<" ">> \o ST_InvalidDataUri
MsgAssetInvalid == ST_AssetValidation
MsgNoApiKey == ST_ApiKeyNotSet
MsgServerError == ST_ApiError \o ST_500

ErrorMessages ==
    {MsgModerated400, MsgBadRequest400, MsgFetchFailed, MsgFetchTimeout,
     MsgInvalidDataUri, MsgAssetInvalid, MsgNoApiKey, MsgServerError}

\* what a call of fn comes to: a result, or an Error with a message
FnOk == <<"o","k">>
FnOutcomes == {FnOk} \cup ErrorMessages

\* the first test of the catch block: errors that are never retried
IsNonRetryable(message) ==
    \/ Includes(message, ST_ContentModeration)
    \/ Includes(message, ST_AssetValidation)
    \/ Includes(message, ST_ApiKeyNotSet)
    \/ Includes(message, ST_InvalidDataUri)
    \/ Includes(message, ST_UnsupportedAsset)

Is400Error(message) == Includes(message, ST_400)

IsTransientError(message) ==
    \/ Includes(message, ST_FailedToFetch)
    \/ Includes(message, ST_TimeoutFetching)
    \/ Includes(message, ST_ServerDown)

\* a variant of the delay below: the same delay before every attempt
BackoffConstant(attempt) == baseDelay

\* baseDelay * Math.pow(2, attempt)
BackoffDelay(attempt) == baseDelay * 2^attempt

NoRetryResult == [kind |-> "none"]

\* one pass through the loop body: fn is called and settles with outcome
RetryCall(outcome) ==
    /\ retryPc = "calling"
    /\ retryAttempt < maxRetries
    /\ retryCalls' = retryCalls + 1
    /\ IF outcome = FnOk
       THEN /\ retryPc' = "returned"
            /\ retryResult' = [kind |-> "returned", value |-> outcome]
            /\ UNCHANGED <<retryAttempt, retryErrors, retryDelays>>
       ELSE /\ retryErrors' = Append(retryErrors, outcome)
            /\ IF IsNonRetryable(outcome)
                  \/ (~Is400Error(outcome) /\ ~IsTransientError(outcome))
               THEN /\ retryPc' = "thrown"
                    /\ retryResult' = [kind |-> "thrown", value |-> outcome]
                    /\ UNCHANGED <<retryAttempt, retryDelays>>
               ELSE IF retryAttempt < maxRetries - 1
               THEN /\ retryPc' = "waiting"
                    /\ retryDelays' = Append(retryDelays, BackoffDelay(retryAttempt))
                    /\ UNCHANGED <<retryAttempt, retryResult>>
               ELSE \* attempts exhausted: the loop ends, throw lastError
                    /\ retryPc' = "thrown"
                    /\ retryAttempt' = retryAttempt + 1
                    /\ retryResult' = [kind |-> "thrown", value |-> outcome]
                    /\ UNCHANGED retryDelays
    /\ UNCHANGED notRetry

\* the setTimeout of the backoff fires: the next pass of the loop
RetryResume ==
    /\ retryPc = "waiting"
    /\ retryPc' = "calling"
    /\ retryAttempt' = retryAttempt + 1
    /\ UNCHANGED <<retryCalls, retryErrors, retryDelays, retryResult>>
    /\ UNCHANGED notRetry

\* retryWithBackoff has been called: let attempt = 0
InitRetry ==
    /\ retryPc = "calling"
    /\ retryAttempt = 0
    /\ retryCalls = 0
    /\ retryErrors = <<>>
    /\ retryDelays = <<>>
    /\ retryResult = NoRetryResult

IdleRetry == InitRetry


----------------------------------------------------------------------------
(* src/unnamed/part_002: RunwayAPI.pollForCompletion, both variants         *)

\* let maxAttempts = 60 (the default of the direct-API variant too)
maxAttempts == 60

\* the pollForCompletion of lines 912-1052 and the one of lines 1838-2080
PollVariants == {"proxy", "direct"}

\* what checkGenerationStatus comes to: a status, or an Error
StatusResponses == {"SUCCEEDED", "FAILED", "CANCELLED", "RUNNING"}
StatusErrors == {"status endpoints not found", "network error"}

\* the statuses for which the try block throws "Generation failed"
ThrowsGenerationFailed(variant, status) ==
    IF variant = "proxy" THEN status \in {"FAILED", "CANCELLED"}
    ELSE status \in {"failed", "error", "FAILED", "ERROR"}

\* the catch block, entered with consecutiveErrors already counted
PollCatch(message, errors) ==
    IF message = "status endpoints not found" /\ errors >= 3
    THEN /\ pollPc' = "returned"
         /\ pollResult' = [success |-> TRUE, videoUrl |-> "runway-generation-completed"]
         /\ UNCHANGED attempts
    ELSE IF attempts >= maxAttempts - 1
    THEN /\ pollPc' = "thrown"
         /\ pollResult' = [success |-> FALSE, error |-> message]
         /\ UNCHANGED attempts
    ELSE /\ attempts' = attempts + 1
         /\ UNCHANGED <<pollPc, pollResult>>

\* one pass through the while loop: checkGenerationStatus settles with
\* response; leaving the loop throws the polling timeout
PollCheck(response) ==
    /\ pollPc = "polling"
    /\ attempts < maxAttempts
    /\ pollChecks' = pollChecks + 1
    /\ pollLast' = response
    /\ IF response \in StatusErrors
       THEN /\ consecutiveErrors' = consecutiveErrors + 1
            /\ PollCatch(response, consecutiveErrors + 1)
       ELSE IF response = "SUCCEEDED"
       THEN /\ consecutiveErrors' = 0
            /\ pollPc' = "returned"
            /\ pollResult' = [success |-> TRUE, videoUrl |-> "output[0]"]
            /\ UNCHANGED attempts
       ELSE IF ThrowsGenerationFailed(pollVariant, response)
       THEN \* thrown inside the try block, so the catch block handles it
            /\ consecutiveErrors' = 1
            /\ PollCatch("Generation failed", 1)
       ELSE /\ consecutiveErrors' = 0
            /\ attempts' = attempts + 1
            /\ IF attempts + 1 < maxAttempts
               THEN UNCHANGED <<pollPc, pollResult>>
               ELSE /\ pollPc' = "thrown"
                    /\ pollResult' = [success |-> FALSE,
                                      error |-> "Generation polling timed out"]
    /\ UNCHANGED pollVariant
    /\ UNCHANGED notPoll

NoPollResult == [success |-> FALSE, error |-> "none"]

InitPoll ==
    /\ pollVariant \in PollVariants
    /\ pollPc = "polling"
    /\ attempts = 0
    /\ consecutiveErrors = 0
    /\ pollChecks = 0
    /\ pollLast = "none"
    /\ pollResult = NoPollResult

IdlePoll ==
    /\ pollVariant = "proxy"
    /\ pollPc = "polling"
    /\ attempts = 0
    /\ consecutiveErrors = 0
    /\ pollChecks = 0
    /\ pollLast = "none"
    /\ pollResult = NoPollResult


----------------------------------------------------------------------------
(* src/js/runway-bridge.js: runCompletionWorker.ts onRunwayComplete, two    *)
(* completion signals of one task in flight together                       *)

CompletionWorkers == {1, 2}

CompletionStatuses == {"SUCCEEDED", "FAILED"}

\* reserved credits of the open reservation
CompletionReserved == {2, 8}

\* actualSeconds of a signal, in quarter seconds
CompletionActual == {0, 12 * Q, 40 * Q}

NoCompletion == [pc |-> "idle"]

\* const r = await db.getReservation(taskId); if (!r || r.status !== 'open') return;
CompletionGet(w, status, q) ==
    /\ cwWorkers[w] = NoCompletion
    /\ cwWorkers' = [cwWorkers EXCEPT ![w] =
            IF ReservationOpen(cwReservation)
            THEN [pc |-> "read", r |-> cwReservation, status |-> status, actualSeconds |-> q]
            ELSE [pc |-> "returned"]]
    /\ UNCHANGED <<cwReservation, cwBalance, cwLedger>>
    /\ UNCHANGED notCompletion

\* await db.tx(...): addLedger, bumpBalance and closeReservation with the
\* row r read before the transaction
CompletionTx(w) ==
    LET c == cwWorkers[w]
        refund == IF c.status # "SUCCEEDED" THEN FailRefund(c.r) ELSE SettleRefund(c.r, c.actualSeconds)
        kind == IF c.status # "SUCCEEDED" THEN "CREDIT_JOB_FAIL" ELSE "CREDIT_JOB_REFUND"
        writes == c.status # "SUCCEEDED" \/ refund # 0
    IN  /\ c.pc = "read"
        /\ cwLedger' = IF writes THEN AddLedger(cwLedger, refund, kind) ELSE cwLedger
        /\ cwBalance' = IF writes THEN BumpBalance(cwBalance, refund) ELSE cwBalance
        /\ cwReservation' = [cwReservation EXCEPT !.status = "closed"]
        /\ cwWorkers' = [cwWorkers EXCEPT ![w] = [pc |-> "closed", r |-> c.r]]
        /\ UNCHANGED notCompletion

InitCompletion ==
    /\ \E reserved \in CompletionReserved :
           cwReservation = [status |-> "open", reserved_credits |-> reserved]
    /\ cwBalance = 0
    /\ cwLedger = <<>>
    /\ cwWorkers = [w \in CompletionWorkers |-> NoCompletion]

IdleCompletion ==
    /\ cwReservation = [status |-> "closed", reserved_credits |-> 0]
    /\ cwBalance = 0
    /\ cwLedger = <<>>
    /\ cwWorkers = [w \in CompletionWorkers |-> NoCompletion]


----------------------------------------------------------------------------
(* src/docs/backend-implementation-guide.md: router.post('/shopify'), two   *)
(* deliveries of one orders/paid event in flight together                  *)

DeliveryHandlers == {1, 2}

\* selling plans of the delivered order
DeliveryPlans == {SELLING_PLAN_TIER1, SELLING_PLAN_TIER2}

NoDelivery == [pc |-> "idle"]

\* SELECT id FROM webhook_deliveries WHERE id = $1, answered 200 when a row
\* exists
DeliverySelect(h) ==
    /\ wdHandlers[h] = NoDelivery
    /\ wdHandlers' = [wdHandlers EXCEPT ![h] =
            IF wdRow # "none"
            THEN [pc |-> "answered", status |-> 200, message |-> "Already processed"]
            ELSE [pc |-> "selected"]]
    /\ UNCHANGED <<wdRow, wdLedger, wdBalance, wdPlan>>
    /\ UNCHANGED notDelivery

\* INSERT INTO webhook_deliveries (id, event_type, status): id is the
\* PRIMARY KEY, a second row with the id is refused and the query throws
DeliveryInsert(h) ==
    /\ wdHandlers[h].pc = "selected"
    /\ IF wdRow # "none"
       THEN /\ wdHandlers' = [wdHandlers EXCEPT ![h] = [pc |-> "caught", threw |-> "insert"]]
            /\ UNCHANGED wdRow
       ELSE /\ wdHandlers' = [wdHandlers EXCEPT ![h] = [pc |-> "marked"]]
            /\ wdRow' = "processing"
    /\ UNCHANGED <<wdLedger, wdBalance, wdPlan>>
    /\ UNCHANGED notDelivery

\* await handleOrderPaid(event): the transaction that writes the ledger row
\* and sets the balance, rolled back when a statement throws
DeliveryProcess(h, throws) ==
    LET credits == BaseCredits(wdPlan)
        t0 == Tables(wdLedger, wdBalance)
        t1 == Tx(t0, Tables(AddLedger(t0.ledger, credits, "CREDIT_BASE_RESET"),
                            SetBalance(t0.balance, credits)), throws)
    IN  /\ wdHandlers[h].pc = "marked"
        /\ wdLedger' = t1.ledger
        /\ wdBalance' = t1.balance
        /\ wdHandlers' = [wdHandlers EXCEPT ![h] =
                IF throws THEN [pc |-> "caught", threw |-> "process"]
                ELSE [pc |-> "handled"]]
        /\ UNCHANGED <<wdRow, wdPlan>>
        /\ UNCHANGED notDelivery

\* UPDATE webhook_deliveries SET status = 'processed', then 200
DeliveryProcessed(h) ==
    /\ wdHandlers[h].pc = "handled"
    /\ wdRow' = "processed"
    /\ wdHandlers' = [wdHandlers EXCEPT ![h] =
            [pc |-> "answered", status |-> 200, message |-> "Processed"]]
    /\ UNCHANGED <<wdLedger, wdBalance, wdPlan>>
    /\ UNCHANGED notDelivery

\* catch: UPDATE webhook_deliveries SET status = 'failed' WHERE id = $2
\* (no row, no change), then 500
DeliveryCatch(h) ==
    /\ wdHandlers[h].pc = "caught"
    /\ wdRow' = IF wdRow = "none" THEN "none" ELSE "failed"
    /\ wdHandlers' = [wdHandlers EXCEPT ![h] =
            [pc |-> "answered", status |-> 500, message |-> "Webhook processing failed",
             threw |-> wdHandlers[h].threw]]
    /\ UNCHANGED <<wdLedger, wdBalance, wdPlan>>
    /\ UNCHANGED notDelivery

InitDelivery ==
    /\ wdRow = "none"
    /\ wdLedger = <<>>
    /\ wdBalance \in LedgerStart
    /\ wdPlan \in DeliveryPlans
    /\ wdHandlers = [h \in DeliveryHandlers |-> NoDelivery]

IdleDelivery ==
    /\ wdRow = "none"
    /\ wdLedger = <<>>
    /\ wdBalance = 0
    /\ wdPlan = SELLING_PLAN_TIER1
    /\ wdHandlers = [h \in DeliveryHandlers |-> NoDelivery]


----------------------------------------------------------------------------
(* src/webhook-server.js with Postgres: POST /v1/jobs, upsertUserToDb and   *)
(* GET /v1/credits of one user                                              *)

\* balance of the user's row, loaded into memory at start
PgStartBalances == {30, 100}

\* requestedSeconds of the jobs, in quarter seconds: 1 s and 2 s
PgDurations == {4, 8}

PgReaders == {1, 2}

MaxPgJobs == 2

NoRead == [pc |-> "idle"]

\* the sequence without its i-th element
RemoveAt(seq, i) == SubSeq(seq, 1, i - 1) \o SubSeq(seq, i + 1, Len(seq))

\* POST /v1/jobs: debits the memory balance and calls upsertUserToDb without
\* awaiting it; the query carries the balance read at the call
PgJobs(q) ==
    LET needed == JobsNeeded(q)
    IN  /\ pgJobsDone < MaxPgJobs
        /\ pgJobsDone' = pgJobsDone + 1
        /\ IF JobsInsufficient(pgMemory, needed)
           THEN UNCHANGED <<pgMemory, pgWrites, pgReserved>>
           ELSE /\ pgMemory' = JobsDebit(pgMemory, needed)
                /\ pgWrites' = Append(pgWrites, JobsDebit(pgMemory, needed))
                /\ pgReserved' = pgReserved + needed
        /\ UNCHANGED <<pgDb, pgReads, pgStart>>
        /\ UNCHANGED notPg

\* the database executes one of the upserts in flight (the pool runs each
\* query on a connection of its own): balance = EXCLUDED.balance
PgUpsert(i) ==
    /\ i \in 1..Len(pgWrites)
    /\ pgDb' = pgWrites[i]
    /\ pgWrites' = RemoveAt(pgWrites, i)
    /\ UNCHANGED <<pgMemory, pgReads, pgReserved, pgJobsDone, pgStart>>
    /\ UNCHANGED notPg

\* GET /v1/credits: the database executes SELECT balance FROM users
PgCreditsSelect(r) ==
    /\ pgReads[r] = NoRead
    /\ pgReads' = [pgReads EXCEPT ![r] = [pc |-> "selected", balance |-> pgDb]]
    /\ UNCHANGED <<pgMemory, pgDb, pgWrites, pgReserved, pgJobsDone, pgStart>>
    /\ UNCHANGED notPg

\* GET /v1/credits after the await: usersByEmail.set(email, {...old, ...user})
\* with the balance of the row, and the answer
PgCreditsAnswer(r) ==
    /\ pgReads[r].pc = "selected"
    /\ pgMemory' = pgReads[r].balance
    /\ pgReads' = [pgReads EXCEPT ![r] = [pc |-> "answered", balance |-> pgReads[r].balance]]
    /\ UNCHANGED <<pgDb, pgWrites, pgReserved, pgJobsDone, pgStart>>
    /\ UNCHANGED notPg

InitPg ==
    /\ pgStart \in PgStartBalances
    /\ pgMemory = pgStart
    /\ pgDb = pgStart
    /\ pgWrites = <<>>
    /\ pgReads = [r \in PgReaders |-> NoRead]
    /\ pgReserved = 0
    /\ pgJobsDone = 0

IdlePg ==
    /\ pgStart = 0
    /\ pgMemory = 0
    /\ pgDb = 0
    /\ pgWrites = <<>>
    /\ pgReads = [r \in PgReaders |-> NoRead]
    /\ pgReserved = 0
    /\ pgJobsDone = 0

----------------------------------------------------------------------------
(* Specification of src/webhook-server.js with its panel                    *)

InitServer ==
    /\ shopifySecret \in BOOLEAN
    /\ usersByEmail \in StoredUsers
    /\ processedWebhookIds = {}
    /\ now = 0
    /\ lastWebhook = NoWebhook
    /\ lastJob = NoJob
    /\ grantsById = [i \in WebhookIds \cup {NoId} |-> 0]
    /\ deliveriesById = [i \in WebhookIds \cup {NoId} |-> 0]
    /\ jobsDone = 0
    /\ creditBalance = 0
    /\ currentReservation = NoReservation
    /\ panelPc = "idle"
    /\ panelRequest = 0
    /\ panelResponse = NoJob
    /\ modal = NoModal
    /\ lastReserve = [success |-> TRUE, seconds |-> 0]
    /\ polls = {}
    /\ lastSettle = NoSettle

Init == InitServer /\ IdleApi /\ IdleJobsDb /\ IdleLedger /\ IdleConv /\ IdleThrottle /\ IdleRate /\ IdleRetry /\ IdlePoll /\ IdleCompletion /\ IdleDelivery /\ IdlePg

\* requests reaching the server from Shopify and from any client
Next ==
    \/ \E id \in WebhookIds \cup {NoId}, ok \in BOOLEAN, body \in Bodies :
           ShopifyWebhook(id, ok, body)
    \/ \E email \in Emails : Auth(email)
    \/ \E email \in Emails, q \in JobSeconds : PostJobs(email, q)

Spec == Init /\ [][Next]_vars

\* the panel of one signed-in user against the server
NextPanel ==
    \/ \E id \in WebhookIds \cup {NoId}, ok \in BOOLEAN, body \in Bodies :
           ShopifyWebhook(id, ok, body)
    \/ \E email \in Emails : Auth(email)
    \/ GetCredits
    \/ \E q \in PanelDurations : HandleGenerate(q)
    \/ PanelJobs
    \/ ReserveResponse
    \/ \E t \in RunwayTaskIds : GenerateWithRunway("url", t)

SpecPanel == Init /\ [][NextPanel]_vars

----------------------------------------------------------------------------
(* Specification of POST /v1/jobs of src/webhook-server.js with the clock   *)

NextTasks ==
    \/ \E email \in Emails : Auth(email)
    \/ \E email \in Emails, q \in JobSeconds : PostJobs(email, q)
    \/ Tick

SpecTasks == Init /\ [][NextTasks]_vars

----------------------------------------------------------------------------
(* Specification of src/api/v2/index.js                                     *)

InitApiSpec == IdleServer /\ InitApi /\ IdleJobsDb /\ IdleLedger /\ IdleConv /\ IdleThrottle /\ IdleRate /\ IdleRetry /\ IdlePoll /\ IdleCompletion /\ IdleDelivery /\ IdlePg

NextApi ==
    \/ \E email \in Emails, q \in ApiSeconds, ok \in BOOLEAN : ApiGenerate(email, q, ok)
    \/ \E id \in 1..MaxRunwayTasks, outcome \in {"SUCCEEDED", "FAILED"} :
           RunwayFinish(id, outcome)
    \/ \E email \in Emails, id \in 0..MaxRunwayTasks, q \in ApiSeconds :
           ApiStatus(email, id, q)

SpecApi == InitApiSpec /\ [][NextApi]_vars

----------------------------------------------------------------------------
(* Specification of POST /v1/jobs of src/unnamed/part_000: two requests of   *)
(* one user in flight together                                              *)

InitJobsDbSpec == IdleServer /\ IdleApi /\ InitJobsDb /\ IdleLedger /\ IdleConv /\ IdleThrottle /\ IdleRate /\ IdleRetry /\ IdlePoll /\ IdleCompletion /\ IdleDelivery /\ IdlePg

NextJobsDb ==
    \/ \E i \in Requests, q \in JobSeconds : DbJobsStart(i, q)
    \/ \E i \in Requests : DbJobsUpdate(i)

SpecJobsDb == InitJobsDbSpec /\ [][NextJobsDb]_vars

----------------------------------------------------------------------------
(* Specification of a generation in the panel, from reserve to settlement   *)

\* balances the signed-in user starts with
GenerateBalances == {100, 200}

InitGenerate ==
    /\ shopifySecret = TRUE
    /\ \E b \in GenerateBalances :
           usersByEmail = [e \in Emails |-> IF e = PanelEmail
                                            THEN [balance |-> b, planId |-> "none"]
                                            ELSE NoUser]
    /\ processedWebhookIds = {}
    /\ now = 0
    /\ lastWebhook = NoWebhook
    /\ lastJob = NoJob
    /\ grantsById = [i \in WebhookIds \cup {NoId} |-> 0]
    /\ deliveriesById = [i \in WebhookIds \cup {NoId} |-> 0]
    /\ jobsDone = 0
    /\ creditBalance = 0
    /\ currentReservation = NoReservation
    /\ panelPc = "idle"
    /\ panelRequest = 0
    /\ panelResponse = NoJob
    /\ modal = NoModal
    /\ lastReserve = [success |-> TRUE, seconds |-> 0]
    /\ polls = {}
    /\ lastSettle = NoSettle

InitGenerateSpec ==
    InitGenerate /\ IdleApi /\ IdleJobsDb /\ IdleLedger /\ IdleConv /\ IdleThrottle /\ IdleRate /\ IdleRetry /\ IdlePoll /\ IdleCompletion /\ IdleDelivery /\ IdlePg

\* what the panel does by itself once a generation has been started
GenerateProgress ==
    \/ PanelJobs
    \/ ReserveResponse
    \/ NoSourceVideo
    \/ \E outcome \in GenerateOutcomes, t \in RunwayTaskIds : GenerateWithRunway(outcome, t)
    \/ \E poll \in polls, outcome \in PollOutcomes : PollForVideo(poll, outcome)

NextGenerate ==
    \/ Tick
    \/ GetCredits
    \/ \E q \in PanelDurations \cup {DefaultDuration} : HandleGenerate(q)
    \/ GenerateProgress

SpecGenerate == InitGenerateSpec /\ [][NextGenerate]_vars

\* requests are answered, promises settle and timers fire
SpecGenerateFair == SpecGenerate /\ WF_vars(GenerateProgress)

----------------------------------------------------------------------------
(* Specification of the conversions                                         *)

InitConvSpec == IdleServer /\ IdleApi /\ IdleJobsDb /\ IdleLedger /\ InitConv /\ IdleThrottle /\ IdleRate /\ IdleRetry /\ IdlePoll /\ IdleCompletion /\ IdleDelivery /\ IdlePg

NextConv == \E q \in ConvSeconds : Convert(q)

SpecConv == InitConvSpec /\ [][NextConv]_vars

----------------------------------------------------------------------------
(* Specification of the request throttling                                  *)

InitThrottleSpec ==
    IdleServer /\ IdleApi /\ IdleJobsDb /\ IdleLedger /\ IdleConv /\ InitThrottle /\ IdleRate /\ IdleRetry /\ IdlePoll /\ IdleCompletion /\ IdleDelivery /\ IdlePg

NextThrottle ==
    \/ \E id \in RequestIds : ThrottleRequest(id)
    \/ \E id \in RequestIds : ThrottleResume(id)
    \/ \E id \in RequestIds : ThrottleFinally(id)
    \/ ThrottleTick

SpecThrottle == InitThrottleSpec /\ [][NextThrottle]_vars

\* a due timer fires, time passes or a running requestFn terminates
ThrottleProgress ==
    \/ ThrottleTick
    \/ \E id \in RequestIds : ThrottleResume(id) \/ ThrottleFinally(id)

SpecThrottleFair == SpecThrottle /\ WF_vars(ThrottleProgress)


----------------------------------------------------------------------------
(* Specification of the rate limiting middleware                            *)

InitRateSpec ==
    IdleServer /\ IdleApi /\ IdleJobsDb /\ IdleLedger /\ IdleConv /\ IdleThrottle /\ InitRate /\ IdleRetry /\ IdlePoll /\ IdleCompletion /\ IdleDelivery /\ IdlePg

NextRate ==
    \/ \E ip \in RateIps : RateLimit(ip)
    \/ RateTick

SpecRate == InitRateSpec /\ [][NextRate]_vars


----------------------------------------------------------------------------
(* Specification of retryWithBackoff                                        *)

InitRetrySpec ==
    IdleServer /\ IdleApi /\ IdleJobsDb /\ IdleLedger /\ IdleConv /\ IdleThrottle /\ IdleRate /\ InitRetry /\ IdlePoll /\ IdleCompletion /\ IdleDelivery /\ IdlePg

NextRetry ==
    \/ \E outcome \in FnOutcomes : RetryCall(outcome)
    \/ RetryResume

SpecRetry == InitRetrySpec /\ [][NextRetry]_vars


----------------------------------------------------------------------------
(* Specification of pollForCompletion                                       *)

InitPollSpec ==
    IdleServer /\ IdleApi /\ IdleJobsDb /\ IdleLedger /\ IdleConv /\ IdleThrottle /\ IdleRate /\ IdleRetry /\ InitPoll /\ IdleCompletion /\ IdleDelivery /\ IdlePg

NextPoll == \E response \in StatusResponses \cup StatusErrors : PollCheck(response)

SpecPoll == InitPollSpec /\ [][NextPoll]_vars


----------------------------------------------------------------------------
(* Specification of two completion signals of one task                      *)

InitCompletionSpec ==
    IdleServer /\ IdleApi /\ IdleJobsDb /\ IdleLedger /\ IdleConv /\ IdleThrottle /\ IdleRate /\ IdleRetry /\ IdlePoll /\ InitCompletion /\ IdleDelivery /\ IdlePg

NextCompletion ==
    \/ \E w \in CompletionWorkers, status \in CompletionStatuses, q \in CompletionActual :
           CompletionGet(w, status, q)
    \/ \E w \in CompletionWorkers : CompletionTx(w)

SpecCompletion == InitCompletionSpec /\ [][NextCompletion]_vars


----------------------------------------------------------------------------
(* Specification of two deliveries of one billing event                     *)

InitDeliverySpec ==
    IdleServer /\ IdleApi /\ IdleJobsDb /\ IdleLedger /\ IdleConv /\ IdleThrottle /\ IdleRate /\ IdleRetry /\ IdlePoll /\ IdleCompletion /\ InitDelivery /\ IdlePg

NextDelivery ==
    \/ \E h \in DeliveryHandlers : DeliverySelect(h)
    \/ \E h \in DeliveryHandlers : DeliveryInsert(h)
    \/ \E h \in DeliveryHandlers, throws \in BOOLEAN : DeliveryProcess(h, throws)
    \/ \E h \in DeliveryHandlers : DeliveryProcessed(h)
    \/ \E h \in DeliveryHandlers : DeliveryCatch(h)

SpecDelivery == InitDeliverySpec /\ [][NextDelivery]_vars


----------------------------------------------------------------------------
(* Specification of src/webhook-server.js with Postgres                     *)

InitPgSpec ==
    IdleServer /\ IdleApi /\ IdleJobsDb /\ IdleLedger /\ IdleConv /\ IdleThrottle /\ IdleRate /\ IdleRetry /\ IdlePoll /\ IdleCompletion /\ IdleDelivery /\ InitPg

NextPg ==
    \/ \E q \in PgDurations : PgJobs(q)
    \/ \E i \in 1..MaxPgJobs : PgUpsert(i)
    \/ \E r \in PgReaders : PgCreditsSelect(r)
    \/ \E r \in PgReaders : PgCreditsAnswer(r)

SpecPg == InitPgSpec /\ [][NextPg]_vars

----------------------------------------------------------------------------
(* Specification of the ledger handlers                                     *)

InitLedgerSpec == IdleServer /\ IdleApi /\ IdleJobsDb /\ InitLedger /\ IdleConv /\ IdleThrottle /\ IdleRate /\ IdleRetry /\ IdlePoll /\ IdleCompletion /\ IdleDelivery /\ IdlePg

NextLedger ==
    \/ \E id \in OrderIds, order \in LedgerOrders, fault \in {"none", "renewal", "topup"} :
           LedgerWebhook(id, order, fault)
    \/ \E credits \in GrantAmounts, throws \in BOOLEAN : GrantCredits(credits, throws)
    \/ \E order \in LedgerOrders, throws \in BOOLEAN : HandleOrderPaid(order, throws)
    \/ \E q \in ReserveSeconds : JobsReserve(q)
    \/ \E ok \in BOOLEAN : JobsCreateTask(ok)
    \/ JobsCreateReservation
    \/ \E taskId \in 1..MaxTasks, status \in {"SUCCEEDED", "FAILED"},
          q \in ActualSeconds, throws \in BOOLEAN :
           OnRunwayComplete(taskId, status, q, throws)

SpecLedger == InitLedgerSpec /\ [][NextLedger]_vars

----------------------------------------------------------------------------
(* Properties of src/webhook-server.js                                      *)

\* the documented conversion: max(1, round(seconds)) * creditsPerSecond,
\* negative durations taken as 0
CreditsForSeconds(q) ==
    LET clamped == IF q < 0 THEN 0 ELSE q
        rounded == MathRound(clamped)
    IN  (IF rounded < 1 THEN 1 ELSE rounded) * CreditsPerSecond

\* a step in which POST /v1/jobs answered 200
ReserveSucceeded == jobsDone' # jobsDone /\ lastJob'.status = 200

C6_FailedIsNotProcessed ==
    lastWebhook.result = "failed" => lastWebhook.id \notin processedWebhookIds

\* C9 (as the specification states it): a reservation rejected for lack of
\* credits reaches the caller as INSUFFICIENT_CREDITS carrying the needed
\* amount and the balance the server answered.
C9_CallerSeesInsufficientCredits ==
    (panelPc = "idle" /\ lastReserve.success = FALSE) =>
        /\ Includes(lastReserve.error, INSUFFICIENT_CREDITS)
        /\ modal.shown
        /\ modal.needed = panelResponse.needed
        /\ modal.current = panelResponse.balance

----------------------------------------------------------------------------
(* Properties of src/api/v2/index.js                                        *)

\* C3 (as the specification states it): every stored balance is at least 0
\* in every reachable state.  POST /status subtracts the credits of a
\* SUCCEEDED task without looking at the balance.
C3_BalanceNeverNegative == \A e \in Emails : apiUsers[e] >= 0

----------------------------------------------------------------------------
(* Properties of POST /v1/jobs of src/unnamed/part_000                      *)

Finished(i) == dbRequests[i].pc \in {"responded", "rejected"}

Succeeded(i) == dbRequests[i].pc = "responded" /\ dbRequests[i].status = 200

\* C4 (as the specification states it): of two overlapping reservations of
\* one user whose balance covers either of them but not both, exactly one
\* succeeds.
C4_ExactlyOneOfTwoSucceeds ==
    ( /\ Finished(1) /\ Finished(2)
      /\ dbRequests[1].needed <= dbInitialBalance
      /\ dbRequests[2].needed <= dbInitialBalance
      /\ dbRequests[1].needed + dbRequests[2].needed > dbInitialBalance )
    => Cardinality({i \in Requests : Succeeded(i)}) = 1

----------------------------------------------------------------------------
(* Properties of the ledger handlers                                        *)

CompletionStep ==
    /\ ledgerOps' # ledgerOps
    /\ ledgerLast'.op \in {"complete", "complete-return", "complete-throw"}

TablesUnchanged ==
    /\ credit_balance' = credit_balance
    /\ credit_ledger' = credit_ledger
    /\ reservations' = reservations

\* C7: onRunwayComplete for a task whose reservation is already closed, with
\* any status and any actualSeconds, changes no balance, writes no ledger
\* row and leaves the reservation closed.
C7_SecondSettleIsNoOp ==
    [][ CompletionStep =>
          LET r == reservations[ledgerLast'.taskId]
          IN  (r # NoRow /\ r.status = "closed") =>
                  TablesUnchanged /\ ledgerLast'.op = "complete-return"
      ]_vars

\* a task was settled and then settled again
C7_Witness ==
    /\ ledgerLast.op = "complete-return"
    /\ reservations[ledgerLast.taskId] # NoRow
    /\ reservations[ledgerLast.taskId].status = "closed"

\* C8: jobs.ts debits exactly the credits its reservation row records, and
\* onRunwayComplete with a failed status on an open reservation credits back
\* exactly reserved_credits in one CREDIT_JOB_FAIL row and closes the
\* reservation; on a reservation that is closed or missing it changes nothing.
C8_RefundAllRestoresReserved ==
    [][ /\ (jobInFlight.pc = "idle" /\ jobInFlight'.pc = "createTask")
             => credit_balance' = credit_balance - jobInFlight'.needed
        /\ (jobInFlight.pc = "createReservation" /\ jobInFlight'.pc = "idle")
             => reservations'[jobInFlight.taskId] =
                    [reserved_credits |-> jobInFlight.needed, status |-> "open"]
        /\ (CompletionStep /\ ledgerLast'.status = "FAILED") =>
             LET t == ledgerLast'.taskId
                 r == reservations[t]
             IN  IF r # NoRow /\ r.status = "open" /\ ledgerLast'.op = "complete"
                 THEN /\ credit_balance' = credit_balance + r.reserved_credits
                      /\ credit_ledger' = Append(credit_ledger,
                             [delta |-> r.reserved_credits,
                              event_type |-> "CREDIT_JOB_FAIL"])
                      /\ reservations' = [reservations EXCEPT ![t].status = "closed"]
                 ELSE TablesUnchanged /\ ledgerLast'.op # "complete"
      ]_vars

\* a reservation on the starting balance of 10 was refunded in full
C8_Witness ==
    /\ ledgerLast.op = "complete"
    /\ ledgerLast.status = "FAILED"
    /\ reservations[ledgerLast.taskId].status = "closed"
    /\ Len(credit_ledger) = 3
    /\ credit_balance = 10

\* C10 (as the specification states it): settling an open reservation
\* credits back a refund with 0 <= refund <= reservedCredits.
C10_RefundWithinReservation ==
    [][ (CompletionStep /\ ledgerLast'.op = "complete"
                        /\ ledgerLast'.status = "SUCCEEDED") =>
          LET r == reservations[ledgerLast'.taskId]
              refund == credit_balance' - credit_balance
          IN  0 <= refund /\ refund <= r.reserved_credits
      ]_vars

IsReserveDebit(row) == row.event_type = "DEBIT_JOB_RESERVE"

\* the DEBIT_JOB_RESERVE rows of the ledger
ReserveDebits == SelectSeq(credit_ledger, IsReserveDebit)

\* the reservation rows
ReservationRows == {t \in 1..MaxTasks : reservations[t] # NoRow}

RECURSIVE SumReserved(_)
SumReserved(ts) ==
    IF ts = {} THEN 0
    ELSE LET t == CHOOSE x \in ts : TRUE
         IN  reservations[t].reserved_credits + SumReserved(ts \ {t})

\* C12 (as the specification states it): once the handler of POST /v1/jobs
\* has ended, every DEBIT_JOB_RESERVE row has its reservation and every
\* reservation its debit: as many rows as reservations, for the same credits.
C12_DebitHasReservation ==
    jobInFlight = NoJobInFlight =>
        /\ Len(ReserveDebits) = Cardinality(ReservationRows)
        /\ -SumDeltas(ReserveDebits) = SumReserved(ReservationRows)

\* baseCreditsForPlan of the ledger handlers: 1000 | 2500 | 8000
BaseCreditsForPlan(planId) ==
    IF planId = SELLING_PLAN_TIER1 THEN 1000
    ELSE IF planId = SELLING_PLAN_TIER2 THEN 2500
    ELSE IF planId = SELLING_PLAN_TIER3 THEN 8000
    ELSE 1000

----------------------------------------------------------------------------
(* Properties of the orders of src/webhook-server.js                        *)

\* a paid order of b@x.com for the 1000-credit pack and nothing else
TopupOrder == Order("b@x.com", <<Item("null", TOPUP_SKU)>>)

\* credits of the pack AUTOVFX-TOPUP-1000
PackCredits == 1000

\* C14 (as the specification states it): a paid top-up order for the
\* 1000-credit pack that is processed adds exactly 1000 to the balance.
C14_TopupAddsPack ==
    [][ \A id \in WebhookIds \cup {NoId}, ok \in BOOLEAN :
          (ShopifyWebhook(id, ok, TopupOrder) /\ lastWebhook'.result = "received") =>
              /\ usersByEmail'["b@x.com"] # NoUser
              /\ usersByEmail'["b@x.com"].balance =
                     UserOrDefault("b@x.com").balance + PackCredits
      ]_vars

----------------------------------------------------------------------------
(* Properties of the task ids of src/webhook-server.js                      *)

\* C11 (as the specification states it): no two successful reservations
\* return the same taskId.  The handler names the task after Date.now().
C11_TaskIdsDiffer ==
    [][ (ReserveSucceeded /\ lastJob.status = 200) =>
            lastJob'.taskId # lastJob.taskId
      ]_vars

----------------------------------------------------------------------------
(* Properties of the conversions                                            *)

\* C15 (as the specification states it): a conversion used for billing
\* returns no negative number of credits, a positive number for a positive
\* duration, and for a negative duration what it returns for 0 seconds.
C15_ConversionsNeverNegative ==
    convResult.done =>
        /\ convResult.jobs >= 0 /\ convResult.api >= 0
        /\ (convSeconds > 0 => convResult.jobs > 0 /\ convResult.api > 0)
        /\ (convSeconds < 0 => /\ convResult.jobs = JobsNeeded(0)
                               /\ convResult.api = CalculateCredits(0))

\* C20 (as the specification states it): for every duration the conversion
\* of POST /v1/jobs, calculateCredits and the panel's calculateCreditsNeeded
\* return the policy value max(1, round(seconds)) * creditsPerSecond
\* (checked on the positive durations, where C15 has nothing to say).
C20_ConversionsAgreeWithPolicy ==
    (convResult.done /\ convSeconds > 0) =>
        /\ convResult.jobs = CreditsForSeconds(convSeconds)
        /\ convResult.api = CreditsForSeconds(convSeconds)
        /\ convResult.panel = CreditsForSeconds(convSeconds)

----------------------------------------------------------------------------
(* Properties of the request throttling                                     *)

\* C19 (as the specification states it): at most maxConcurrentRequests
\* throttled requests execute at the same time.
C19_AtMostThreeActive ==
    Cardinality(activeRequests) <= maxConcurrentRequests

----------------------------------------------------------------------------
(* Properties of a generation in the panel                                  *)

C17_ReservationEventuallyClosed ==
    (currentReservation # NoReservation) ~> (currentReservation = NoReservation)

\* C18 (as the specification states it): whenever no request is in flight
\* after a reserve, the panel's creditBalance is the balance the server stores.
C18_PanelShowsServerBalance ==
    (panelPc = "idle" /\ jobsDone > 0) =>
        creditBalance = UserOrDefault(PanelEmail).balance

----------------------------------------------------------------------------
(* Properties of the rate limiting middleware                               *)

\* the times of the window of ip's entry: from its first request to its reset
WindowOf(entry) == {t \in RateTimes : entry.reset - WINDOW_MS <= t /\ t <= entry.reset}

\* C28: at most MAX_REQ requests of one ip reach a route handler within one
\* window; while the window lasts, a request beyond MAX_REQ is answered 429;
\* the first request after the reset time starts a fresh window and passes;
\* a request changes nothing for the other ips.
C28_RateLimitPerWindow ==
    [][ \A ip \in RateIps :
          /\ rateMap'[ip] # NoEntry =>
                 PassedIn(ratePassed'[ip], WindowOf(rateMap'[ip])) <= MAX_REQ
          /\ rateRequests'[ip] # rateRequests[ip] =>
                 /\ rateLast'.ip = ip
                 /\ \A other \in RateIps \ {ip} :
                        /\ rateMap'[other] = rateMap[other]
                        /\ ratePassed'[other] = ratePassed[other]
                 /\ IF rateMap[ip] # NoEntry /\ rateNow <= rateMap[ip].reset
                    THEN /\ rateLast'.status = 429 <=> rateMap[ip].count >= MAX_REQ
                         /\ rateMap'[ip].reset = rateMap[ip].reset
                    ELSE /\ rateLast'.status = 200
                         /\ rateMap'[ip] = [count |-> 1, reset |-> rateNow + WINDOW_MS]
      ]_vars

\* an ip filled its window, was answered 429, and after the reset its next
\* request passed as the first of a fresh window
C28_Witness ==
    \E ip \in RateIps :
        /\ rateLast = [ip |-> ip, status |-> 200]
        /\ rateMap[ip].count = 1
        /\ PassedIn(ratePassed[ip], RateTimes) = MAX_REQ + 1
        /\ rateRequests[ip] > MAX_REQ + 1

----------------------------------------------------------------------------
(* Properties of retryWithBackoff                                           *)

\* the errors the documentation calls retryable: a 400 that is not a content
\* moderation, validation, key or asset-type error, or a transient fetch error
RetryableErrors == {MsgBadRequest400, MsgFetchFailed, MsgFetchTimeout}

Last(seq) == seq[Len(seq)]

----------------------------------------------------------------------------
(* Properties of pollForCompletion                                          *)

\* C29 (as the specification states it): pollForCompletion makes at most
\* maxAttempts status checks; it returns success only after a SUCCEEDED
\* status or after 3 consecutive endpoint-not-found errors; and a FAILED or
\* CANCELLED status makes it throw.
C29_PollTerminates ==
    /\ pollChecks <= maxAttempts
    /\ pollPc = "returned" =>
           \/ pollLast = "SUCCEEDED"
           \/ pollLast = "status endpoints not found" /\ consecutiveErrors >= 3
    /\ pollLast \in {"FAILED", "CANCELLED"} => pollPc = "thrown"

----------------------------------------------------------------------------
(* Properties of POST /status of src/api/v2/index.js                        *)

\* the answer to a POST /status for task id that found the task SUCCEEDED
StatusSucceeded(answer, id) ==
    /\ answer.status = 200
    /\ answer.route = "status"
    /\ answer.id = id
    /\ answer.task = "SUCCEEDED"

\* C25 (as the specification states it): a task is charged once; a POST
\* /status for a succeeded task that the preceding POST /status has already
\* charged leaves every balance unchanged.
C25_TaskChargedOnce ==
    [][ \A id \in 1..MaxRunwayTasks :
          (StatusSucceeded(apiLast, id) /\ apiRequests' # apiRequests
             /\ StatusSucceeded(apiLast', id)) =>
              apiUsers' = apiUsers ]_vars

----------------------------------------------------------------------------
(* Properties of the request throttling under fairness                      *)

\* C23: a request handed to throttleRequest is started once, by its own call
\* or from the head of the queue, and never again; the queue only grows at
\* its end and shrinks at its head; and every request handed over is
\* eventually settled.
C23_ThrottledRequestsSettle ==
    /\ [][ \A id \in RequestIds :
             /\ (id \notin activeRequests /\ id \in activeRequests') =>
                    \/ thrPc[id] \in {"idle", "waiting"}
                    \/ thrPc[id] = "queued" /\ id = Head(requestQueue)
             /\ thrPc[id] = "settled" =>
                    thrPc'[id] = "settled" /\ id \notin activeRequests'
             /\ \/ requestQueue' = requestQueue
                \/ requestQueue # <<>> /\ requestQueue' = Tail(requestQueue)
                \/ \E new \in RequestIds : requestQueue' = Append(requestQueue, new)
       ]_vars
    /\ \A id \in RequestIds : (thrPc[id] # "idle") ~> (thrPc[id] = "settled")

\* a request taken from the queue is running while another still waits in
\* the queue and a third one is settled
C23_Witness ==
    \E taken, done \in RequestIds :
        /\ thrPc[taken] = "dequeued"
        /\ thrPc[done] = "settled"
        /\ requestQueue # <<>>

----------------------------------------------------------------------------
(* Properties of two completion signals of one task                         *)

\* C21: of the completion signals of one open reservation at most one closes
\* it and writes a refund row, and the refunded total stays within
\* reserved_credits.
C21_OneSignalCloses ==
    /\ Cardinality({w \in CompletionWorkers : cwWorkers[w].pc = "closed"}) <= 1
    /\ Len(cwLedger) <= 1
    /\ cwBalance <= cwReservation.reserved_credits

----------------------------------------------------------------------------
(* Properties of two deliveries of one billing event                        *)

----------------------------------------------------------------------------
(* Properties of src/webhook-server.js with Postgres                        *)

\* C27: once no upsert and no credits query is in flight, the memory balance
\* and the database balance both equal the start balance minus the credits
\* reserved.
C27_BalancesConverge ==
    (/\ pgWrites = <<>>
     /\ \A r \in PgReaders : pgReads[r].pc # "selected")
        => /\ pgMemory = pgStart - pgReserved
           /\ pgDb = pgStart - pgReserved

====
